---- MODULE Spec2Model ----
(***************************************************************************)
(* Agentic identity and delegation control plane of hypernome/patchet:     *)
(* the IDP intent subsystem (src/src/idp/intent.py), the checksum          *)
(* (src/src/util/commons.py) and the resource-server authorization         *)
(* (src/src/api/auth.py).                                                  *)
(*                                                                         *)
(* Python values are represented as follows.  A str is a TLA+ string, or a *)
(* sequence of one-character strings where the code looks inside it.  An   *)
(* Optional[str] that is None is the string "None".  An Optional[Dict]     *)
(* that is None (or an empty dict, which the code treats alike through     *)
(* `if not x`) is the record NoneRec.  A Dict[str, WorkflowStep] is the    *)
(* sequence of its items in insertion order, each item a record whose      *)
(* field `key` is the dict key.  A raised HTTPException(n) is a response   *)
(* with status n; any other exception escaping a handler is status 500.    *)
(***************************************************************************)
EXTENDS Integers, Sequences, FiniteSets, TLC

VARIABLES
    registered_agents,     \* intent.py:36  agent_id -> list of Registration
    registered_workflows,  \* intent.py:37  workflow_id -> list of WorkflowDefinition
    idp_now,               \* int(time.time()) on the IDP host
    idpRequest,            \* the IDP call handled last
    idpResponse,           \* its outcome: HTTP status and body
    rs_env,                \* environment of the resource server (API_POP_ENABLED, ...)
    rs_now,                \* time.time() on the resource server
    jwks,                  \* api/auth.py:31-32  _JWKSCache: _kid_to_pem, _expires_at
    rsRequest,             \* the request the resource server handled last
    rsResponse,            \* its outcome: status, whether the endpoint handler ran
    shim_now,              \* time.time() on the client host
    contexts,              \* contextvars.Context objects: _current_agent_context, _workflow_state_context
    workflow_states,       \* the workflow-state dicts the contexts refer to
    frames,                \* per execution: the wrapped tool calls whose body is running
    instances,             \* the ReActAgent objects gc.get_objects() enumerates
    _token_cache,          \* secure_client.py:118  cache key -> token and expiry
    shimRequest,           \* the authenticated_request call handled last
    shimResponse,          \* its outcome
    calls,                 \* per task: the authenticated_request call it is suspended in
    _cache_lock,           \* secure_client.py:114  the task that holds the cache lock
    _TOOL_REGISTRY,        \* secure_client.py:21   tool name -> tool function
    verified_agents,       \* secure_client.py:531  the ids of the agents _prepare_agent stored
    bootstrap              \* _register_agents_from_idp: the registrations still to prepare

idpVars == <<registered_agents, registered_workflows, idp_now, idpRequest, idpResponse>>

rsVars == <<rs_env, rs_now, jwks, rsRequest, rsResponse>>

lockVars == <<calls, _cache_lock>>

bootVars == <<_TOOL_REGISTRY, verified_agents, bootstrap>>

shimVars == <<shim_now, contexts, workflow_states, frames, instances, _token_cache,
              shimRequest, shimResponse, calls, _cache_lock,
              _TOOL_REGISTRY, verified_agents, bootstrap>>

vars == <<registered_agents, registered_workflows, idp_now, idpRequest, idpResponse,
          rs_env, rs_now, jwks, rsRequest, rsResponse,
          shim_now, contexts, workflow_states, frames, instances, _token_cache,
          shimRequest, shimResponse, calls, _cache_lock,
          _TOOL_REGISTRY, verified_agents, bootstrap>>

----------------------------------------------------------------------------
(* Bounds *)

\* size of the digest space SHA-256 is abstracted to
NumDigests == 3
\* the IDP clock runs over 0..MaxIdpTime
MaxIdpTime == 1
\* longest batch registration request
MaxBatch == 2

----------------------------------------------------------------------------
(* Values *)

NoneStr == "None"
NoneRec == [none |-> TRUE]

IsNoneRec(x) == x = NoneRec

AgentIds == {"A", "B"}
UnknownAgent == "C"

PemK1 == "pem-k1"
PemK2 == "pem-k2"
PublicKeyPems == {PemK1, PemK2}

Range(s) == {s[i] : i \in DOMAIN s}

Last(s) == s[Len(s)]

----------------------------------------------------------------------------
(* util/commons.py : checksum of an agent's components *)

\* str.strip() on one line, the line being a sequence of characters
RECURSIVE LStrip(_)
LStrip(line) ==
    IF line # <<>> /\ Head(line) = " " THEN LStrip(Tail(line)) ELSE line

RECURSIVE RStrip(_)
RStrip(line) ==
    IF line # <<>> /\ line[Len(line)] = " "
    THEN RStrip(SubSeq(line, 1, Len(line) - 1))
    ELSE line

Strip(line) == RStrip(LStrip(line))

\* a prompt is the sequence of its lines; the result of the five steps is the
\* stripped, non-empty lines
normalize_prompt(prompt) ==
    LET stripped == [i \in DOMAIN prompt |-> Strip(prompt[i])]
    IN  SelectSeq(stripped, LAMBDA l : l # <<>>)

_prepare_tool(tool) ==
    IF tool.source_code # ""
    THEN [name |-> tool.name, signature |-> tool.signature,
          description |-> tool.description, source_code |-> tool.source_code]
    ELSE [name |-> tool.name, signature |-> tool.signature,
          description |-> tool.description]

NameRank(name) ==
    CASE name = "t1" -> 1
      [] name = "t2" -> 2
      [] OTHER -> 3

\* sorted(..., key=name): stable insertion sort
RECURSIVE InsertByName(_, _)
InsertByName(t, sorted) ==
    IF sorted = <<>> THEN <<t>>
    ELSE IF NameRank(t.name) < NameRank(Head(sorted).name)
         THEN <<t>> \o sorted
         ELSE <<Head(sorted)>> \o InsertByName(t, Tail(sorted))

RECURSIVE SortByName(_)
SortByName(tools) ==
    IF tools = <<>> THEN <<>>
    ELSE InsertByName(Last(tools), SortByName(SubSeq(tools, 1, Len(tools) - 1)))

CanonicalComponents(agent_components) ==
    [id |-> agent_components.agent_id,
     prompt |-> normalize_prompt(agent_components.prompt_template),
     tools |-> SortByName([i \in DOMAIN agent_components.tools |->
                              _prepare_tool(agent_components.tools[i])]),
     config |-> agent_components.configuration]

\* SHA-256 abstracted to a digest space of NumDigests values: a deterministic
\* function of the canonical serialization in which distinct contents may
\* collide.
CharCode(c) ==
    CASE c = "a" -> 1
      [] c = "b" -> 2
      [] OTHER -> 0

IdCode(id) ==
    CASE id = "A" -> 0
      [] id = "B" -> 1
      [] OTHER -> 2

RECURSIVE SumSeq(_)
SumSeq(s) == IF s = <<>> THEN 0 ELSE Head(s) + SumSeq(Tail(s))

LineCode(line) == SumSeq([i \in DOMAIN line |-> CharCode(line[i])])

PromptCode(lines) == SumSeq([i \in DOMAIN lines |-> i * LineCode(lines[i])])

ToolCode(tool) ==
    NameRank(tool.name) + (IF "source_code" \in DOMAIN tool THEN 1 ELSE 0)

ToolsCode(tools) == SumSeq([i \in DOMAIN tools |-> i * ToolCode(tools[i])])

Sha256(content) ==
    (IdCode(content.id) + PromptCode(content.prompt) + ToolsCode(content.tools)
        + Cardinality(DOMAIN content.config)) % NumDigests

compute_agent_checksum(agent_components) ==
    Sha256(CanonicalComponents(agent_components))

Digests == 0 .. (NumDigests - 1)

----------------------------------------------------------------------------
(* Inputs of registration *)

ToolT1 == [name |-> "t1", signature |-> "(x)", description |-> "d1", source_code |-> ""]
ToolT2 == [name |-> "t2", signature |-> "(y)", description |-> "d2", source_code |-> ""]

PromptP1 == << <<"a">> >>
PromptP1Reformatted == << <<" ", "a", " ">>, <<" ">> >>
PromptP2 == << <<"b">> >>

\* the same agent written twice with different formatting, and a changed one
ComponentVariants ==
    { [prompt_template |-> PromptP1, tools |-> <<ToolT1, ToolT2>>],
      [prompt_template |-> PromptP1Reformatted, tools |-> <<ToolT2, ToolT1>>],
      [prompt_template |-> PromptP2, tools |-> <<ToolT1, ToolT2>>] }

Components(agent_id, prompt_template, tools) ==
    [agent_id |-> agent_id, prompt_template |-> prompt_template, tools |-> tools,
     configuration |-> <<>>]

RegistrationRequest(agent_components, public_key) ==
    [app_id |-> "app", agent_components |-> agent_components, public_key |-> public_key]

\* agent A in every variant and with either key; agent B in two variants,
\* once with the falsy public_key "" that register_agent stores as None
RegistrationRequests ==
    { RegistrationRequest(Components("A", v.prompt_template, v.tools), k) :
        v \in ComponentVariants, k \in PublicKeyPems }
    \cup
    { RegistrationRequest(Components("B", PromptP1, <<ToolT1, ToolT2>>), PemK1),
      RegistrationRequest(Components("B", PromptP2, <<ToolT1, ToolT2>>), PemK1),
      RegistrationRequest(Components("B", PromptP2, <<ToolT1, ToolT2>>), "") }

\* two agents whose checksums collide
BatchElements ==
    { RegistrationRequest(Components("A", PromptP2, <<ToolT1, ToolT2>>), PemK1),
      RegistrationRequest(Components("B", PromptP1, <<ToolT1, ToolT2>>), PemK1) }

BatchRegistrationRequests ==
    UNION { [1..n -> BatchElements] : n \in 1..MaxBatch }

----------------------------------------------------------------------------
(* idp/intent.py : registry *)

AllRegistrations ==
    UNION { Range(registered_agents[a]) : a \in DOMAIN registered_agents }

\* a duplicate check that looks at the latest registration of each agent only
ChecksumAlreadyRegistered_LatestOnly(registry, agent_checksum) ==
    \E a \in DOMAIN registry : Last(registry[a]).checksum = agent_checksum

\* the loop over every registration of every agent
ChecksumAlreadyRegistered(registry, agent_checksum) ==
    \E a \in DOMAIN registry : \E i \in DOMAIN registry[a] :
        registry[a][i].checksum = agent_checksum

ChangeTypePatch == "PATCH"

_detect_change_type(previous_registration, registration) == ChangeTypePatch

InitialVersion == <<1, 0, 0>>

\* a version "x.y.z" is the triple <<x, y, z>>
_compute_next_checksum_version(registry, agent_id, registration) ==
    LET agent_history == IF agent_id \in DOMAIN registry THEN registry[agent_id] ELSE <<>>
    IN  IF agent_history = <<>> THEN InitialVersion
        ELSE LET previous_registration == Last(agent_history)
                 v == previous_registration.version
                 change_type == _detect_change_type(previous_registration, registration)
             IN  CASE change_type = "MAJOR" -> <<v[1] + 1, 0, 0>>
                   [] change_type = "MINOR" -> <<v[1], v[2] + 1, 0>>
                   [] change_type = "PATCH" -> <<v[1], v[2], v[3] + 1>>
                   [] OTHER -> InitialVersion

NewRegistration(registry, now, registration_request) ==
    LET components == registration_request.agent_components
        base == [app_id |-> registration_request.app_id,
                 agent_id |-> components.agent_id,
                 registration_id |-> <<"reg", components.agent_id, now>>,
                 checksum |-> compute_agent_checksum(components),
                 prompt |-> components.prompt_template,
                 tools |-> components.tools,
                 public_key |-> IF registration_request.public_key # ""
                                THEN registration_request.public_key ELSE NoneStr,
                 registered_at |-> now * 1000]
    IN  [base EXCEPT !.app_id = @] @@
        [version |-> _compute_next_checksum_version(registry, components.agent_id, base)]

\* a registry that keeps only the newest registration of an agent
AppendRegistration_Replace(registry, registration) ==
    LET id == registration.agent_id
    IN  [a \in DOMAIN registry \cup {id} |->
            IF a = id THEN <<registration>> ELSE registry[a]]

AppendRegistration(registry, registration) ==
    LET id == registration.agent_id
    IN  [a \in DOMAIN registry \cup {id} |->
            IF a = id
            THEN (IF a \in DOMAIN registry THEN registry[a] ELSE <<>>) \o <<registration>>
            ELSE registry[a]]

\* IntentServer.register_agent as a function of the registry: the new
\* registry and the response
RegisterAgentResult(registry, now, registration_request) ==
    LET agent_checksum == compute_agent_checksum(registration_request.agent_components)
        registration == NewRegistration(registry, now, registration_request)
    IN  IF ChecksumAlreadyRegistered(registry, agent_checksum)
        THEN [registry |-> registry,
              response |-> [status |-> 400,
                            body |-> "Agent with identical checksum already exists"]]
        ELSE [registry |-> AppendRegistration(registry, registration),
              response |-> [status |-> 200,
                            body |-> [agent_id |-> registration.agent_id,
                                      registration_id |-> registration.registration_id,
                                      checksum |-> agent_checksum]]]

\* POST /intent/register/agent
RegisterAgent(registration_request) ==
    LET r == RegisterAgentResult(registered_agents, idp_now, registration_request)
    IN  /\ registered_agents' = r.registry
        /\ idpRequest' = [op |-> "register_agent", arg |-> registration_request]
        /\ idpResponse' = r.response
        /\ UNCHANGED <<registered_workflows, idp_now, rsVars, shimVars>>

\* POST /intent/batch_register/agent: the loop over the batch; an exception
\* of register_agent leaves the loop, what was appended before stays
RECURSIVE BatchFold(_, _, _, _)
BatchFold(registry, now, requests, registrations) ==
    IF requests = <<>>
    THEN [registry |-> registry, response |-> [status |-> 200, body |-> registrations]]
    ELSE LET r == RegisterAgentResult(registry, now, Head(requests))
         IN  IF r.response.status # 200
             THEN [registry |-> r.registry, response |-> r.response]
             ELSE BatchFold(r.registry, now, Tail(requests),
                            Append(registrations, r.response.body))

BatchRegisterAgent(batch_request) ==
    LET r == BatchFold(registered_agents, idp_now, batch_request, <<>>)
    IN  /\ registered_agents' = r.registry
        /\ idpRequest' = [op |-> "batch_register_agent", arg |-> batch_request]
        /\ idpResponse' = r.response
        /\ UNCHANGED <<registered_workflows, idp_now, rsVars, shimVars>>

\* GET /intent/agents/{app_id}: the latest registration of every agent of the
\* app, under the app's id; an empty dict when the app has none
get_registered_agents(app_id) ==
    LET latest == {Last(registered_agents[a]) : a \in DOMAIN registered_agents}
        agents_by_app == {r \in latest : r.app_id = app_id}
    IN  /\ idpRequest' = [op |-> "get_registered_agents", arg |-> app_id]
        /\ idpResponse' = [status |-> 200,
                           body |-> IF agents_by_app = {} THEN {}
                                    ELSE {[key |-> app_id, registrations |-> agents_by_app]}]
        /\ UNCHANGED <<registered_agents, registered_workflows, idp_now, rsVars, shimVars>>

\* GET /intent/agents/{app_id}/{target_agent_id}: the agent's latest
\* registration, None when the agent or the app does not match
get_single_agent(app_id, target_agent_id) ==
    /\ idpRequest' = [op |-> "get_single_agent", arg |-> <<app_id, target_agent_id>>]
    /\ idpResponse' =
           [status |-> 200,
            body |-> IF target_agent_id \in DOMAIN registered_agents
                     THEN IF Last(registered_agents[target_agent_id]).app_id = app_id
                          THEN Last(registered_agents[target_agent_id])
                          ELSE NoneRec
                     ELSE NoneRec]
    /\ UNCHANGED <<registered_agents, registered_workflows, idp_now, rsVars, shimVars>>

\* time passes on the IDP host
IdpTick ==
    /\ idp_now < MaxIdpTime
    /\ idp_now' = idp_now + 1
    /\ UNCHANGED <<registered_agents, registered_workflows, idpRequest, idpResponse, rsVars, shimVars>>

----------------------------------------------------------------------------
(* idp/intent.py : workflow registry *)

\* dict.get(workflow_id): the list stored under the key, <<>> when absent
WorkflowHistory(registry, workflow_id) ==
    IF \E i \in DOMAIN registry : registry[i].key = workflow_id
    THEN registry[CHOOSE i \in DOMAIN registry : registry[i].key = workflow_id].defs
    ELSE <<>>

StepKeys(steps) == [i \in DOMAIN steps |-> steps[i].key]

HasStep(steps, step_id) == \E i \in DOMAIN steps : steps[i].key = step_id

StepIndex(steps, step_id) == CHOOSE i \in DOMAIN steps : steps[i].key = step_id

\* steps.get(step_id)
StepDef(steps, step_id) == steps[StepIndex(steps, step_id)]

\* == on two dicts: the same items, in any order
DictEqual(steps1, steps2) == Range(steps1) = Range(steps2)

\* the loop of register_workflow over the registry items in insertion order:
\* the first item that decides
RECURSIVE RegisterWorkflowScan(_, _)
RegisterWorkflowScan(items, workflow) ==
    IF items = <<>> THEN "register"
    ELSE LET wf == Last(Head(items).defs)
         IN  IF Head(items).key = workflow.workflow_id THEN "skipped"
             ELSE IF DictEqual(wf.steps, workflow.steps) THEN "identical"
             ELSE RegisterWorkflowScan(Tail(items), workflow)

\* IntentServer.register_workflow as a function of the registry
RegisterWorkflowResult(registry, workflow) ==
    LET decision == RegisterWorkflowScan(registry, workflow)
    IN  CASE decision = "skipped" ->
               [registry |-> registry,
                response |-> [status |-> 200,
                              body |-> [status |-> "skipped",
                                        workflow_id |-> workflow.workflow_id]]]
          [] decision = "identical" ->
               [registry |-> registry,
                response |-> [status |-> 400,
                              body |-> "Workflow with identical steps already exists"]]
          [] OTHER ->
               [registry |-> Append(registry, [key |-> workflow.workflow_id,
                                               defs |-> <<workflow>>]),
                response |-> [status |-> 200,
                              body |-> [status |-> "registered",
                                        workflow_id |-> workflow.workflow_id]]]

\* POST /intent/register/workflow
RegisterWorkflow(workflow) ==
    LET r == RegisterWorkflowResult(registered_workflows, workflow)
    IN  /\ registered_workflows' = r.registry
        /\ idpRequest' = [op |-> "register_workflow", arg |-> workflow]
        /\ idpResponse' = r.response
        /\ UNCHANGED <<registered_agents, idp_now, rsVars, shimVars>>

\* POST /intent/batch_register/workflow: the loop over the batch; an
\* exception of register_workflow leaves the loop
RECURSIVE BatchWorkflowFold(_, _, _)
BatchWorkflowFold(registry, workflows, registrations) ==
    IF workflows = <<>>
    THEN [registry |-> registry, response |-> [status |-> 200, body |-> registrations]]
    ELSE LET r == RegisterWorkflowResult(registry, Head(workflows))
         IN  IF r.response.status # 200
             THEN [registry |-> r.registry, response |-> r.response]
             ELSE BatchWorkflowFold(r.registry, Tail(workflows),
                                    Append(registrations, r.response.body))

BatchRegisterWorkflow(batch_request) ==
    LET r == BatchWorkflowFold(registered_workflows, batch_request, <<>>)
    IN  /\ registered_workflows' = r.registry
        /\ idpRequest' = [op |-> "batch_register_workflow", arg |-> batch_request]
        /\ idpResponse' = r.response
        /\ UNCHANGED <<registered_agents, idp_now, rsVars, shimVars>>

\* POST /intent/deregister/workflow
DeregisterWorkflow(workflow_id) ==
    /\ registered_workflows' =
           SelectSeq(registered_workflows, LAMBDA item : item.key # workflow_id)
    /\ idpRequest' = [op |-> "deregister_workflow", arg |-> workflow_id]
    /\ idpResponse' = [status |-> 200,
                       body |-> [status |-> "deregistered", workflow_id |-> workflow_id]]
    /\ UNCHANGED <<registered_agents, idp_now, rsVars, shimVars>>

----------------------------------------------------------------------------
(* idp/intent.py : workflow validation *)

\* takewhile(required == True and key != step_id, steps.keys())
RECURSIVE TakeWhileRequired(_, _)
TakeWhileRequired(steps, step_id) ==
    IF steps = <<>> THEN <<>>
    ELSE IF Head(steps).required /\ Head(steps).key # step_id
         THEN <<Head(steps).key>> \o TakeWhileRequired(Tail(steps), step_id)
         ELSE <<>>

CompletedStepIds(completed_steps) ==
    {completed_steps[i].step_id : i \in DOMAIN completed_steps}

\* the loop of _check_approval: the last approval gate met before the break
\* at the active step (the whole dict when the active step is not a key)
RECURSIVE ApprovalGateBeforeCurrent(_, _, _)
ApprovalGateBeforeCurrent(steps, active_step_id, found) ==
    IF steps = <<>> THEN found
    ELSE IF Head(steps).key = active_step_id THEN found
    ELSE ApprovalGateBeforeCurrent(Tail(steps), active_step_id,
             IF Head(steps).approval_gate THEN Head(steps).key ELSE found)

\* the body of _check_approval
_check_approval(workflow_id, steps, active_step_id, completed_steps) ==
    LET approval_gate_before_current ==
            ApprovalGateBeforeCurrent(steps, active_step_id, NoneStr)
    IN  IF approval_gate_before_current = NoneStr THEN FALSE
        ELSE approval_gate_before_current \in CompletedStepIds(completed_steps)

\* _check_approval is declared without `self` and takes four parameters; the
\* call self._check_approval(workflow_id, steps, step_id, completed_steps)
\* binds five, so the call raises TypeError before the body runs
CheckApprovalParameters == <<"workflow_id", "steps", "active_step_id", "completed_steps">>
CheckApprovalCallArguments ==
    <<"self", "request.workflow_id", "steps", "step_id", "completed_steps">>

CallCheckApproval(workflow_id, steps, active_step_id, completed_steps) ==
    IF Len(CheckApprovalCallArguments) # Len(CheckApprovalParameters)
    THEN "TypeError"
    ELSE IF _check_approval(workflow_id, steps, active_step_id, completed_steps)
         THEN "True" ELSE "False"

\* list(has_scopes) extended with request.requested_scopes (mint_token)
EffectiveScopes(request, has_scopes) == has_scopes \o request.requested_scopes

\* the scope test of _validate_workflow_step: a scope the step declares and
\* the caller neither holds nor requests
MissingScopes(step_def, has_scopes) ==
    {s \in Range(step_def.scopes) : s \notin Range(has_scopes)}

StepAgentMatches(active_step, step_def) == active_step.agent_id = step_def.agent

\* a validation that does not compare the tool with the step's action
StepActionMatches_Always(active_step, step_def) == TRUE

StepActionMatches(active_step, step_def) == active_step.tool_name = step_def.action

\* a dependency test passed by any one completed dependency
DependenciesCompleted_Any(step_def, completed_steps) ==
    \/ step_def.dependencies = <<>>
    \/ Range(step_def.dependencies) \cap CompletedStepIds(completed_steps) # {}

\* set(step_def.dependencies).issubset(completed_step_ids)
DependenciesCompleted(step_def, completed_steps) ==
    Range(step_def.dependencies) \subseteq CompletedStepIds(completed_steps)

\* "True" or "False" as returned, "TypeError" when the call raises
_validate_workflow_step(registry, request, has_scopes) ==
    LET workflow == WorkflowHistory(registry, request.workflow_id)
        active_step == request.workflow_step
        steps == Last(workflow).steps
        step_id == active_step.step_id
        step_def == StepDef(steps, step_id)
        completed_steps == request.delegation_context.completed_steps
        chain == request.delegation_context.chain
        required_step_ids == TakeWhileRequired(steps, step_id)
    IN  IF workflow = <<>> THEN "False"
        ELSE IF IsNoneRec(active_step) THEN "False"
        ELSE IF ~HasStep(steps, step_id) THEN "False"
        ELSE IF ~StepAgentMatches(active_step, step_def) THEN "False"
        ELSE IF ~StepActionMatches(active_step, step_def) THEN "False"
        ELSE IF MissingScopes(step_def, has_scopes) # {} THEN "False"
        ELSE IF IsNoneRec(request.delegation_context) THEN "False"
        ELSE IF completed_steps = <<>>
             THEN (IF step_def.dependencies = <<>> THEN "True" ELSE "False")
        ELSE IF ~DependenciesCompleted(step_def, completed_steps) THEN "False"
        ELSE IF chain = <<>> THEN "False"
        ELSE IF ~(Range(required_step_ids) \subseteq CompletedStepIds(completed_steps))
             THEN "False"
        ELSE IF step_def.requires_approval
             THEN CallCheckApproval(request.workflow_id, steps, step_id, completed_steps)
        ELSE "True"

----------------------------------------------------------------------------
(* idp/intent.py : token minting *)

\* public numbers of the RSA keys behind the PEM strings
PemModulus(pem) ==
    CASE pem = PemK1 -> 3233
      [] pem = PemK2 -> 3127
      [] OTHER -> 0

PublicExponent == 65537

IsPem(pem) == pem \in PublicKeyPems

_pem_string_to_jwk(public_key_pem) ==
    [kty |-> "RSA", use |-> "sig", alg |-> "RS256",
     n |-> <<"b64url", PemModulus(public_key_pem)>>,
     e |-> <<"b64url", PublicExponent>>]

\* sha256("|".join(str(step)...)).hexdigest()[:16]
_compute_sequence_hash(request, sequence) ==
    <<"sha256[:16]",
      IF IsNoneRec(request.workflow_step) THEN sequence
      ELSE Append(sequence, request.workflow_step)>>

\* the first instead of the last registration of the history
LatestRegistration_First(registry, agent_id) == registry[agent_id][1]

\* registered_agents[agent_id][-1]
LatestRegistration(registry, agent_id) == Last(registry[agent_id])

TokenLifetime == 3000
ExpiresIn == 300
Issuer == "http://idp.localhost"

\* a token whose cnf.jwk is taken from the agent's first registration
_create_intent_token_FirstKey(registry, now, request) ==
    [iss |-> Issuer,
     aud |-> request.audience,
     sub |-> request.agent_id,
     exp |-> now + TokenLifetime,
     iat |-> now,
     scope |-> request.requested_scopes,
     cnf |-> [jwk |-> _pem_string_to_jwk(registry[request.agent_id][1].public_key)],
     intent |-> [workflow_id |-> request.workflow_id,
                 workflow_step |-> request.workflow_step,
                 executed_by |-> request.agent_id,
                 delegation_chain |-> _compute_sequence_hash(request, <<request.agent_id>>),
                 step_sequence_hash |-> _compute_sequence_hash(request, <<>>)],
     agent_proof |-> [agent_checksum |-> request.computed_checksum,
                      registration_id |->
                          LatestRegistration(registry, request.agent_id).registration_id]]

_create_intent_token(registry, now, request) ==
    [iss |-> Issuer,
     aud |-> request.audience,
     sub |-> request.agent_id,
     exp |-> now + TokenLifetime,
     iat |-> now,
     scope |-> request.requested_scopes,
     cnf |-> [jwk |-> _pem_string_to_jwk(
                          LatestRegistration(registry, request.agent_id).public_key)],
     intent |-> [workflow_id |-> request.workflow_id,
                 workflow_step |-> request.workflow_step,
                 executed_by |-> request.agent_id,
                 delegation_chain |->
                     _compute_sequence_hash(request,
                         IF IsNoneRec(request.delegation_context)
                         THEN <<request.agent_id>>
                         ELSE request.delegation_context.chain),
                 step_sequence_hash |->
                     _compute_sequence_hash(request,
                         IF IsNoneRec(request.delegation_context)
                         THEN <<>>
                         ELSE request.delegation_context.completed_steps)],
     agent_proof |-> [agent_checksum |-> request.computed_checksum,
                      registration_id |->
                          LatestRegistration(registry, request.agent_id).registration_id]]

\* a mint_token that looks the agent up before it checks the grant type
MintTokenResponse_AgentFirst(agents, workflows, now, request, has_scopes) ==
    IF request.agent_id \notin DOMAIN agents
    THEN [status |-> 401, body |-> "Unknown agent"]
    ELSE IF request.grant_type # "agent_checksum"
    THEN [status |-> 400, body |-> "Unsupported grant type"]
    ELSE IF request.computed_checksum # LatestRegistration(agents, request.agent_id).checksum
    THEN [status |-> 401, body |-> "Agent checksum mismatch - code integrity violation"]
    ELSE LET validation ==
                 IF request.workflow_enabled
                 THEN _validate_workflow_step(workflows, request,
                                              EffectiveScopes(request, has_scopes))
                 ELSE "True"
         IN  IF validation = "TypeError"
             THEN [status |-> 500, body |-> "TypeError"]
             ELSE IF validation = "False"
             THEN [status |-> 403, body |-> "Agent not authorized for workflow step"]
             \* load_pem_public_key(None.encode(...)) raises
             ELSE IF ~IsPem(LatestRegistration(agents, request.agent_id).public_key)
             THEN [status |-> 500, body |-> "AttributeError"]
             ELSE [status |-> 200,
                   body |-> [access_token |-> _create_intent_token(agents, now, request),
                             token_type |-> "Bearer",
                             expires_in |-> ExpiresIn,
                             scope |-> request.requested_scopes]]

\* IntentServer.mint_token: the response
MintTokenResponse(agents, workflows, now, request, has_scopes) ==
    IF request.grant_type # "agent_checksum"
    THEN [status |-> 400, body |-> "Unsupported grant type"]
    ELSE IF request.agent_id \notin DOMAIN agents
    THEN [status |-> 401, body |-> "Unknown agent"]
    ELSE IF request.computed_checksum # LatestRegistration(agents, request.agent_id).checksum
    THEN [status |-> 401, body |-> "Agent checksum mismatch - code integrity violation"]
    ELSE LET validation ==
                 IF request.workflow_enabled
                 THEN _validate_workflow_step(workflows, request,
                                              EffectiveScopes(request, has_scopes))
                 ELSE "True"
         IN  IF validation = "TypeError"
             THEN [status |-> 500, body |-> "TypeError"]
             ELSE IF validation = "False"
             THEN [status |-> 403, body |-> "Agent not authorized for workflow step"]
             \* load_pem_public_key(None.encode(...)) raises
             ELSE IF ~IsPem(LatestRegistration(agents, request.agent_id).public_key)
             THEN [status |-> 500, body |-> "AttributeError"]
             ELSE [status |-> 200,
                   body |-> [access_token |-> _create_intent_token(agents, now, request),
                             token_type |-> "Bearer",
                             expires_in |-> ExpiresIn,
                             scope |-> request.requested_scopes]]

MintToken(request, has_scopes) ==
    /\ idpRequest' = [op |-> "mint_token", arg |-> request, has_scopes |-> has_scopes]
    /\ idpResponse' = MintTokenResponse(registered_agents, registered_workflows,
                                        idp_now, request, has_scopes)
    /\ UNCHANGED <<registered_agents, registered_workflows, idp_now, rsVars, shimVars>>

----------------------------------------------------------------------------
(* Inputs of workflow registration and of minting *)

ScopeRead == "read:file:config.json"
ScopeWrite == "write:files:all"

Audience == "api.localhost.files"

Step(key, agent, action, scopes, dependencies, required, approval_gate, requires_approval) ==
    [key |-> key, agent |-> agent, action |-> action, scopes |-> scopes,
     dependencies |-> dependencies, required |-> required,
     approval_gate |-> approval_gate, requires_approval |-> requires_approval]

Workflow(workflow_id, steps) ==
    [workflow_id |-> workflow_id, workflow_type |-> "dag", steps |-> steps]

\* three-step workflows: every mix of required and approval_gate on the two
\* steps before the last, the last with or without requires_approval and
\* with dependencies
OrderWorkflows ==
    { Workflow("w1",
        << Step("s1", "A", "t1", <<>>, <<>>, r1, g1, FALSE),
           Step("s2", "A", "t1", <<>>, <<>>, r2, g2, FALSE),
           Step("s3", "A", "t1", <<>>, d3, FALSE, FALSE, a3) >>) :
        r1 \in BOOLEAN, g1 \in BOOLEAN, r2 \in BOOLEAN, g2 \in BOOLEAN,
        a3 \in BOOLEAN, d3 \in {<<>>, <<"s1">>, <<"s1", "s2">>} }

\* workflows whose first step varies in agent, action and scopes
BindingWorkflows ==
    { Workflow("w1",
        << Step("s1", agent, action, scopes, <<>>, FALSE, FALSE, FALSE) >> \o tail) :
        agent \in AgentIds, action \in {"t1", "t2"},
        scopes \in {<<>>, <<ScopeRead>>, <<ScopeRead, ScopeWrite>>},
        tail \in {<<>>, << Step("s2", "B", "t2", <<ScopeWrite>>, <<>>,
                                FALSE, FALSE, FALSE) >>} }

\* a workflow under a second id: its steps equal those of one BindingWorkflow
SecondWorkflow ==
    Workflow("w2", << Step("s1", "A", "t1", <<>>, <<>>, FALSE, FALSE, FALSE) >>)

WorkflowIds == {"w1", "w2"}

\* demo/t7/workflows.py: the workflow the T7 demo registers
t7_workflow ==
    Workflow("version_bump_v1.0",
        << Step("init", "T7Supervisor", "T7Planner", <<>>, <<"list_files">>,
                FALSE, FALSE, FALSE),
           Step("t7_list_files", "T7Planner", "t7_list_files", <<"read:repo">>, <<>>,
                TRUE, FALSE, FALSE),
           Step("t7_bump_versions", "T7Patcher", "t7_bump_versions", <<"write:repo">>,
                <<"t7_list_files">>, TRUE, FALSE, FALSE) >>)

\* workflow definitions as clients post them: three-step workflows whose
\* last step may require approval, with and without a gate before it, the
\* demo's workflow, a one-step workflow
PostedWorkflows ==
    {w \in OrderWorkflows : /\ ~w.steps[1].required /\ ~w.steps[2].required
                            /\ ~w.steps[2].approval_gate
                            /\ Len(w.steps[3].dependencies) < 2}
        \cup {t7_workflow, SecondWorkflow}

WorkflowBatches ==
    UNION { [1..n -> {w \in PostedWorkflows : w.steps[1].approval_gate
                                               /\ w.steps[1].key = "s1"
                                               /\ w.steps[3].dependencies = <<>>}
                        \cup {t7_workflow}] : n \in 1..MaxBatch }

CompletedStep(step_id) == [step_id |-> step_id]

CompletedLists ==
    { <<>>, <<CompletedStep("s1")>>, <<CompletedStep("s2")>>,
      <<CompletedStep("s1"), CompletedStep("s2")>>,
      <<CompletedStep("s2"), CompletedStep("s1")>> }

BaseComponents(agent_id) == Components(agent_id, PromptP1, <<ToolT1, ToolT2>>)

BaseRegistration(agent_id) == RegistrationRequest(BaseComponents(agent_id), PemK1)

TokenRequest(grant_type, agent_id, checksum, workflow_id, workflow_step, scopes, context, enabled) ==
    [grant_type |-> grant_type, agent_id |-> agent_id,
     computed_checksum |-> checksum, workflow_id |-> workflow_id,
     workflow_step |-> workflow_step, requested_scopes |-> scopes,
     audience |-> Audience, delegation_context |-> context,
     workflow_enabled |-> enabled]

\* requests without workflow validation: any agent and checksum, and an
\* unsupported grant
PlainTokenRequests ==
    { TokenRequest("agent_checksum", a, c, NoneStr, NoneRec, <<ScopeRead>>, NoneRec, FALSE) :
        a \in AgentIds \cup {UnknownAgent}, c \in Digests }
    \cup
    { TokenRequest("client_credentials", a, 0, NoneStr, NoneRec, <<ScopeRead>>,
                   NoneRec, FALSE) :
        a \in {"A", UnknownAgent} }

\* requests of the registered agent A for a step of w1, with any
\* completed_steps and with or without a chain or a delegation context
OrderTokenRequests ==
    { TokenRequest("agent_checksum", "A", compute_agent_checksum(BaseComponents("A")),
                   "w1", [step_id |-> s, agent_id |-> "A", tool_name |-> "t1"],
                   <<>>, ctx, TRUE) :
        s \in {"s1", "s2", "s3"},
        ctx \in {NoneRec} \cup
                [completed_steps : CompletedLists, chain : {<<>>, <<CompletedStep("s1")>>}] }

ActiveSteps ==
    {NoneRec} \cup
    [step_id : {"s1", "s2", "s9"}, agent_id : AgentIds, tool_name : {"t1", "t2"}]

ScopeLists == {<<>>, <<ScopeRead>>, <<ScopeWrite>>, <<ScopeRead, ScopeWrite>>}

\* requests of the registered agent A that vary in the active step and in
\* the requested scopes
BindingTokenRequests ==
    { TokenRequest("agent_checksum", "A", compute_agent_checksum(BaseComponents("A")),
                   "w1", step, scopes, ctx, TRUE) :
        step \in ActiveSteps, scopes \in ScopeLists,
        ctx \in {NoneRec, [completed_steps |-> <<>>, chain |-> <<>>]} }
    \cup
    { TokenRequest("agent_checksum", "A", compute_agent_checksum(BaseComponents("A")),
                   w, [step_id |-> "s1", agent_id |-> "A", tool_name |-> "t1"],
                   <<ScopeRead>>, [completed_steps |-> <<>>, chain |-> <<>>], e) :
        w \in {"w1", "w2", NoneStr}, e \in BOOLEAN }

\* requests for step s1 of a registered or an unregistered workflow that
\* vary in the grant, the agent and the checksum
FailFastTokenRequests ==
    { TokenRequest(g, a, c, w, [step_id |-> "s1", agent_id |-> "A", tool_name |-> "t1"],
                   <<ScopeRead>>, [completed_steps |-> <<>>, chain |-> <<>>], TRUE) :
        g \in {"agent_checksum", "client_credentials"},
        a \in {"A", UnknownAgent},
        c \in { compute_agent_checksum(BaseComponents("A")),
                (compute_agent_checksum(BaseComponents("A")) + 1) % NumDigests },
        w \in {"w1", "w9"} }

\* scopes of the caller's OAuth token (request.state.scopes)
GrantedScopeLists == {<<>>, <<ScopeRead>>}

----------------------------------------------------------------------------
(* clientshim/secure_client.py : PoP signature of the shim *)

\* json.dumps(payload, sort_keys=True) of the PoP payload
PopMessage(method, url, data, checksum, timestamp) ==
    <<"json", [checksum |-> checksum, data |-> data, method |-> method,
               timestamp |-> timestamp, url |-> url]>>

\* RSASSA-PKCS1-v1_5 with SHA-256: a signature names the private key that
\* made it and the message it was made over
RsaSign(private_key, message) == [signer |-> private_key, message |-> message]

PrivateK1 == "private-k1"
PrivateK2 == "private-k2"

\* the private key whose public modulus is n
PrivateKeyOfModulus(n) ==
    CASE n = PemModulus(PemK1) -> PrivateK1
      [] n = PemModulus(PemK2) -> PrivateK2
      [] OTHER -> NoneStr

\* public_key.verify(signature, message, PKCS1v15, SHA256) does not raise
RsaVerify(public_numbers, signature, message) ==
    /\ signature.signer = PrivateKeyOfModulus(public_numbers.n)
    /\ signature.message = message

\* the PoP and X-PoP-Timestamp headers authenticated_request attaches
PopHeaders(private_key, pop_data, checksum, pop_timestamp) ==
    [PoP |-> [kind |-> "b64",
              signature |-> RsaSign(private_key,
                                PopMessage(pop_data.method, pop_data.url, pop_data.data,
                                           checksum, pop_timestamp))],
     timestamp |-> [kind |-> "str", int |-> pop_timestamp]]

----------------------------------------------------------------------------
(* api/auth.py : resource-server authorization *)

JwksTtl == 600
clock_skew_seconds == 60

IdpKid == "kid-1"
IdpPrivateKey == "idp-private"
IdpPublicPem == "idp-public-pem"

\* the private key matching a PEM the JWKS cache holds
SignerOfPem(pem) == IF pem = IdpPublicPem THEN IdpPrivateKey ELSE NoneStr

\* _JWKSCache._refresh with the outcome of the upstream GET:
\* "ok" a JWKS document with the IDP key, "empty" a document without a
\* usable key, "error" a failed fetch (raise_for_status or transport error)
_refresh(cache, now, upstream) ==
    CASE upstream = "error" -> [raised |-> "Exception", status |-> 500, cache |-> cache]
      [] upstream = "empty" -> [raised |-> "HTTPException", status |-> 502, cache |-> cache]
      [] OTHER -> [raised |-> "none", status |-> 0,
                   cache |-> [kid_to_pem |-> (IdpKid :> IdpPublicPem),
                              expires_at |-> now + JwksTtl]]

\* _JWKSCache.get: upstreams are the outcomes of the first and of the second
\* refresh, should they happen
JwksGet(cache, now, kid, upstreams) ==
    LET first == IF \/ DOMAIN cache.kid_to_pem = {}
                    \/ now >= cache.expires_at
                    \/ kid \notin DOMAIN cache.kid_to_pem
                 THEN _refresh(cache, now, upstreams[1])
                 ELSE [raised |-> "none", status |-> 0, cache |-> cache]
        second == IF kid \notin DOMAIN first.cache.kid_to_pem
                  THEN _refresh(first.cache, now, upstreams[2])
                  ELSE [raised |-> "none", status |-> 0, cache |-> first.cache]
    IN  IF first.raised # "none" THEN first
        ELSE IF second.raised # "none" THEN second
        ELSE IF kid \notin DOMAIN second.cache.kid_to_pem
             THEN [raised |-> "HTTPException", status |-> 500, cache |-> second.cache]
             ELSE [raised |-> "none", status |-> 0, cache |-> second.cache,
                   key |-> second.cache.kid_to_pem[kid]]

\* a path is the sequence of its segments
ExemptPaths == { <<"health">>, <<"docs">>, <<"openapi.json">> }

IsPrefix(p, path) == Len(p) <= Len(path) /\ SubSeq(path, 1, Len(p)) = p

\* path in self.exempt or path.startswith(p + "/")
IsExempt(path) == \E p \in ExemptPaths : IsPrefix(p, path)

FilesAudience == "api.localhost.files"

\* api/files.py: the protected routes, api/endpoints.py: /health
Routes ==
    { [path |-> <<"files", "read">>, method |-> "POST", protected |-> TRUE,
       scopes |-> {ScopeRead}, audience |-> FilesAudience],
      [path |-> <<"files", "write_batch">>, method |-> "POST", protected |-> TRUE,
       scopes |-> {ScopeWrite}, audience |-> FilesAudience],
      [path |-> <<"health">>, method |-> "GET", protected |-> FALSE,
       scopes |-> {}, audience |-> NoneStr] }

ApiBaseUrl == "http://api.localhost"

\* str(request.url)
RequestUrl(request) == <<ApiBaseUrl, request.path>>

\* request bodies as sent, and what json.loads makes of them
BodyEmptyObject == "{}"
BodyEmptyList == "[]"
BodyConfig == "{\"file_path\": \"config.json\"}"
BodyConfigCompact == "{\"file_path\":\"config.json\"}"
BodySecrets == "{\"file_path\": \"secrets.json\"}"
BodyEmpty == ""

JsonDict(items) == [type |-> "dict", items |-> items]
JsonList(items) == [type |-> "list", items |-> items]
JSONDecodeError == [type |-> "JSONDecodeError"]

json_loads(body) ==
    CASE body = BodyEmptyObject -> JsonDict(<<>>)
      [] body = BodyEmptyList -> JsonList(<<>>)
      [] body = BodyConfig -> JsonDict(<< <<"file_path", "config.json">> >>)
      [] body = BodyConfigCompact -> JsonDict(<< <<"file_path", "config.json">> >>)
      [] body = BodySecrets -> JsonDict(<< <<"file_path", "secrets.json">> >>)
      [] OTHER -> JSONDecodeError

\* json.dumps with the default separators
json_dumps(value) ==
    CASE value = JsonDict(<<>>) -> BodyEmptyObject
      [] value = JsonList(<<>>) -> BodyEmptyList
      [] value = JsonDict(<< <<"file_path", "config.json">> >>) -> BodyConfig
      [] value = JsonDict(<< <<"file_path", "secrets.json">> >>) -> BodySecrets
      [] OTHER -> BodyEmpty

\* bool(value) of a parsed body
Truthy(value) == value.items # <<>>

\* hashlib.sha256(text.encode()).hexdigest(), and the empty string
Sha256Hex(text) == <<"sha256", text>>
EmptyString == <<"", "">>

\* the "data" entry verify_pop rebuilds from the received body
ReceivedData(request_json) ==
    IF Truthy(request_json) THEN Sha256Hex(json_dumps(request_json)) ELSE EmptyString

\* jwk_to_public_key
jwk_to_public_key(public_key_jwk) == [n |-> public_key_jwk.n[2], e |-> public_key_jwk.e[2]]

is_intent_allowed(claims) == TRUE

Passed == [status |-> 0, pop_verified |-> FALSE]

\* verify_pop: status 0 when it returns, else the status of what it raises
verify_pop(env, request, claims) ==
    LET request_json == json_loads(request.body)
        pop_header == request.PoP
        pop_timestamp == request.timestamp
        pop_message == PopMessage("POST", RequestUrl(request), ReceivedData(request_json),
                                  claims.agent_proof.agent_checksum, pop_timestamp.int)
        public_key == jwk_to_public_key(claims.cnf.jwk)
    IN  IF ~env.API_POP_ENABLED THEN Passed
        ELSE IF request_json = JSONDecodeError THEN [status |-> 500, pop_verified |-> FALSE]
        ELSE IF pop_header.kind = "absent" THEN [status |-> 401, pop_verified |-> FALSE]
        ELSE IF claims.cnf = NoneRec THEN [status |-> 401, pop_verified |-> FALSE]
        \* None.get, int(None), int of a non-number, b64decode with bad padding
        ELSE IF claims.agent_proof = NoneRec THEN [status |-> 500, pop_verified |-> FALSE]
        ELSE IF pop_timestamp.kind # "str" THEN [status |-> 500, pop_verified |-> FALSE]
        ELSE IF pop_header.kind # "b64" THEN [status |-> 500, pop_verified |-> FALSE]
        ELSE IF ~RsaVerify(public_key, pop_header.signature, pop_message)
             THEN [status |-> 401, pop_verified |-> FALSE]
        ELSE IF env.INTENT_AUTH_MODE /\ ~is_intent_allowed(claims)
             THEN [status |-> 403, pop_verified |-> TRUE]
        ELSE [status |-> 0, pop_verified |-> TRUE]

\* the JSON type of the aud, scope or scp claim of a token: "str", "list",
\* "absent" or another type.  The IDP issues aud as a string, scope as a list
\* and no scp; a string is held as its pieces, " " being white space.
ClaimKind(claims, name) ==
    IF "json" \in DOMAIN claims THEN claims.json[name]
    ELSE CASE name = "aud" -> "str"
           [] name = "scope" -> "list"
           [] OTHER -> "absent"

\* raw.split()
Split(raw) == SelectSeq(raw, LAMBDA piece : piece # " ")

\* _claim_scopes: claims.get("scope") or claims.get("scp") or []
_claim_scopes(claims) ==
    LET from_scope == ClaimKind(claims, "scope") # "absent" /\ claims.scope # <<>>
        from_scp == ClaimKind(claims, "scp") # "absent" /\ claims.scp # <<>>
        kind == IF from_scope THEN ClaimKind(claims, "scope")
                ELSE IF from_scp THEN ClaimKind(claims, "scp") ELSE "list"
        raw == IF from_scope THEN claims.scope ELSE IF from_scp THEN claims.scp ELSE <<>>
    IN  CASE kind = "str" -> Range(Split(raw))
          [] kind = "list" -> Range(raw)
          [] OTHER -> {}

AudienceOk(audience, claims) ==
    CASE ClaimKind(claims, "aud") = "str" -> audience = claims.aud
      [] ClaimKind(claims, "aud") = "list" -> audience \in Range(claims.aud)
      [] OTHER -> FALSE

require_auth_AnyAudience(route, env, request, claims) ==
    IF claims = NoneRec THEN [status |-> 401, pop_verified |-> FALSE]
    ELSE IF \E sc \in route.scopes : sc \notin _claim_scopes(claims)
         THEN [status |-> 403, pop_verified |-> FALSE]
    ELSE verify_pop(env, request, claims)

\* the dependency require_auth(scopes, audience) of a route
require_auth(route, env, request, claims) ==
    IF claims = NoneRec THEN [status |-> 401, pop_verified |-> FALSE]
    ELSE IF route.audience # NoneStr /\ ~AudienceOk(route.audience, claims)
         THEN [status |-> 403, pop_verified |-> FALSE]
    ELSE IF \E sc \in route.scopes : sc \notin _claim_scopes(claims)
         THEN [status |-> 403, pop_verified |-> FALSE]
    ELSE verify_pop(env, request, claims)

\* jwt.decode(token, key_pem, issuer=..., verify_aud=False): the status of the
\* error response, 0 when the claims are accepted
JwtDecodeStatus(token, key_pem, now) ==
    IF token.signed_by # SignerOfPem(key_pem) THEN 401
    ELSE IF token.claims.exp < now THEN 401
    ELSE IF token.claims.iss # Issuer THEN 401
    ELSE 0

RsResponse(status, handler_ran, pop_verified, raised) ==
    [status |-> status, handler_ran |-> handler_ran, pop_verified |-> pop_verified,
     raised |-> raised]

\* the router and the endpoint, reached through call_next
CallNext(env, request, claims) ==
    LET matching == {r \in Routes : r.path = request.path}
        route == CHOOSE r \in matching : TRUE
        dep == require_auth(route, env, request, claims)
    IN  IF matching = {} THEN RsResponse(404, FALSE, FALSE, 0)
        ELSE IF route.method # request.method THEN RsResponse(405, FALSE, FALSE, 0)
        ELSE IF ~route.protected THEN RsResponse(200, TRUE, FALSE, 0)
        ELSE IF dep.status # 0 THEN RsResponse(dep.status, FALSE, dep.pop_verified, 0)
        \* the handlers declare payload: dict
        ELSE IF json_loads(request.body) = JSONDecodeError
                \/ json_loads(request.body).type # "dict"
             THEN RsResponse(422, FALSE, dep.pop_verified, 0)
        ELSE RsResponse(200, TRUE, dep.pop_verified, 0)

\* JWTSignatureMiddleware.dispatch followed by the route: the response and
\* the JWKS cache afterwards.  An exception leaving dispatch is answered 500
\* by the server; `raised` keeps the status of a raised HTTPException.
Dispatch(env, now, cache, request, upstreams) ==
    LET auth == request.authorization
        token == auth.token
        got == JwksGet(cache, now, token.kid, upstreams)
        decoded == JwtDecodeStatus(token, got.key, now)
    IN  IF IsExempt(request.path)
        THEN [response |-> CallNext(env, request, NoneRec), cache |-> cache]
        ELSE IF auth.kind # "bearer"
        THEN [response |-> RsResponse(401, FALSE, FALSE, 0), cache |-> cache]
        ELSE IF token.kid = NoneStr
        THEN [response |-> RsResponse(401, FALSE, FALSE, 0), cache |-> cache]
        ELSE IF got.raised # "none"
        THEN [response |-> RsResponse(500, FALSE, FALSE, got.status), cache |-> got.cache]
        ELSE IF decoded # 0
        THEN [response |-> RsResponse(decoded, FALSE, FALSE, 0), cache |-> got.cache]
        ELSE [response |-> CallNext(env, request, token.claims), cache |-> got.cache]

\* what the client saw of a request, and the server time it was handled at
Handled(response, now) ==
    [status |-> response.status, handler_ran |-> response.handler_ran,
     pop_verified |-> response.pop_verified, raised |-> response.raised,
     handled_at |-> now]

\* one request to the resource server
HandleRequest(request, upstreams) ==
    LET d == Dispatch(rs_env, rs_now, jwks, request, upstreams)
    IN  /\ rsRequest' = request
        /\ rsResponse' = Handled(d.response, rs_now)
        /\ jwks' = d.cache
        /\ UNCHANGED <<rs_env, rs_now, idpVars, shimVars>>

\* time passes on the resource server
RsTimes == {0, clock_skew_seconds + 1}

RsTick ==
    /\ \E t \in RsTimes : t > rs_now /\ rs_now' = t
    /\ UNCHANGED <<rs_env, jwks, rsRequest, rsResponse, idpVars, shimVars>>

----------------------------------------------------------------------------
(* Inputs of the resource server *)

\* the registry file a previous run saved after A and B were registered
LoadedAgents ==
    BatchFold(<<>>, 0, <<BaseRegistration("A"), BaseRegistration("B")>>, <<>>).registry

\* the token the IDP mints for the loaded agent A, both file scopes requested
FilesTokenRequest ==
    TokenRequest("agent_checksum", "A", compute_agent_checksum(BaseComponents("A")),
                 NoneStr, NoneRec, <<ScopeRead, ScopeWrite>>, NoneRec, FALSE)

FilesToken ==
    [kid |-> IdpKid, signed_by |-> IdpPrivateKey,
     claims |-> _create_intent_token(LoadedAgents, 0, FilesTokenRequest)]

Bearer(token) == [kind |-> "bearer", token |-> token]
NoAuthorization == [kind |-> "absent"]

AbsentHeader == [kind |-> "absent"]
MalformedHeader == [kind |-> "malformed"]

ChecksumA == compute_agent_checksum(BaseComponents("A"))

ReadUrl == <<ApiBaseUrl, <<"files", "read">> >>
WriteUrl == <<ApiBaseUrl, <<"files", "write_batch">> >>

ConfigData == Sha256Hex(BodyConfig)

\* what the shim signs for POST /files/read with the config payload at time
\* t, and proofs that differ from it in one component or in the signing key
SignedProofs ==
    { PopHeaders(PrivateK1, [method |-> "POST", url |-> ReadUrl, data |-> ConfigData],
                 ChecksumA, t).PoP : t \in RsTimes }
    \cup
    { PopHeaders(PrivateK1, [method |-> "GET", url |-> ReadUrl, data |-> ConfigData],
                 ChecksumA, 0).PoP,
      PopHeaders(PrivateK1, [method |-> "POST", url |-> WriteUrl, data |-> ConfigData],
                 ChecksumA, 0).PoP,
      PopHeaders(PrivateK1, [method |-> "POST", url |-> ReadUrl, data |-> EmptyString],
                 ChecksumA, 0).PoP,
      PopHeaders(PrivateK1, [method |-> "POST", url |-> ReadUrl,
                             data |-> Sha256Hex(BodySecrets)], ChecksumA, 0).PoP,
      PopHeaders(PrivateK1, [method |-> "POST", url |-> ReadUrl, data |-> ConfigData],
                 (ChecksumA + 1) % NumDigests, 0).PoP,
      PopHeaders(PrivateK2, [method |-> "POST", url |-> ReadUrl, data |-> ConfigData],
                 ChecksumA, 0).PoP }

TimestampHeaders == {AbsentHeader} \cup { [kind |-> "str", int |-> t] : t \in RsTimes }

Bodies ==
    {BodyEmptyObject, BodyEmptyList, BodyConfig, BodyConfigCompact, BodySecrets, BodyEmpty}

Request(method, path, authorization, pop, timestamp, body) ==
    [method |-> method, path |-> path, authorization |-> authorization,
     PoP |-> pop, timestamp |-> timestamp, body |-> body]

PopRequests ==
    { Request("POST", path, Bearer(FilesToken), pop, ts, body) :
        path \in { <<"files", "read">>, <<"files", "write_batch">> },
        pop \in SignedProofs \cup {AbsentHeader, MalformedHeader},
        ts \in TimestampHeaders, body \in Bodies }
    \cup
    { Request("GET", path, auth, pop, [kind |-> "str", int |-> 0], BodyConfig) :
        path \in { <<"files", "read">>, <<"health">> },
        auth \in {Bearer(FilesToken), NoAuthorization},
        pop \in { PopHeaders(PrivateK1, [method |-> m, url |-> ReadUrl, data |-> ConfigData],
                             ChecksumA, 0).PoP : m \in {"GET", "POST"} } }
    \cup
    { Request("POST", <<"files", "read">>, NoAuthorization, AbsentHeader, AbsentHeader,
              BodyConfig) }

\* tokens that differ from the token the IDP issued in the header, the
\* signing key, the registered claims, or the form of aud, scope and scp
OtherAudience == "api.localhost.other"

AudClaims ==
    << [kind |-> "str", value |-> FilesAudience],
       [kind |-> "str", value |-> OtherAudience],
       [kind |-> "list", value |-> <<OtherAudience, FilesAudience>>],
       [kind |-> "list", value |-> <<OtherAudience>>],
       [kind |-> "absent", value |-> NoneStr] >>

ScopeClaims ==
    { [scope_kind |-> "list", scope |-> <<ScopeRead, ScopeWrite>>, scp_kind |-> "absent", scp |-> <<>>],
      [scope_kind |-> "list", scope |-> <<ScopeWrite>>, scp_kind |-> "list", scp |-> <<ScopeRead>>],
      [scope_kind |-> "str", scope |-> <<ScopeRead, " ", " ", ScopeWrite>>, scp_kind |-> "absent", scp |-> <<>>],
      [scope_kind |-> "str", scope |-> <<>>, scp_kind |-> "str", scp |-> <<ScopeRead>>],
      [scope_kind |-> "absent", scope |-> <<>>, scp_kind |-> "list", scp |-> <<ScopeRead, ScopeWrite>>],
      [scope_kind |-> "dict", scope |-> <<ScopeRead>>, scp_kind |-> "list", scp |-> <<ScopeRead>>],
      [scope_kind |-> "absent", scope |-> <<>>, scp_kind |-> "absent", scp |-> <<>>] }

AuthClaims(iss, exp, aud, sc) ==
    [iss |-> iss,
     aud |-> aud.value,
     sub |-> FilesToken.claims.sub,
     exp |-> exp,
     iat |-> FilesToken.claims.iat,
     scope |-> sc.scope,
     scp |-> sc.scp,
     json |-> [aud |-> aud.kind, scope |-> sc.scope_kind, scp |-> sc.scp_kind],
     cnf |-> FilesToken.claims.cnf,
     intent |-> FilesToken.claims.intent,
     agent_proof |-> FilesToken.claims.agent_proof]

AuthToken(kid, key, iss, exp, aud, sc) ==
    [kid |-> kid, signed_by |-> key, claims |-> AuthClaims(iss, exp, aud, sc)]

FilesPaths == { <<"files", "read">>, <<"files", "write_batch">> }

GoodScopeClaim == [scope_kind |-> "list", scope |-> <<ScopeRead, ScopeWrite>>, scp_kind |-> "absent", scp |-> <<>>]

\* requests for the files routes whose token varies in the header, the
\* signing key, the issuer and the expiry
AuthenticationRequests ==
    { Request("POST", path,
              Bearer(AuthToken(kid, key, iss, exp, AudClaims[1], GoodScopeClaim)),
              AbsentHeader, AbsentHeader, BodyConfig) :
        path \in FilesPaths, kid \in {IdpKid, NoneStr, "kid-2"},
        key \in {IdpPrivateKey, "other-private"},
        iss \in {Issuer, "http://other.localhost"},
        exp \in {TokenLifetime, clock_skew_seconds} }

AuthenticationCall(upstreams) ==
    \E request \in AuthenticationRequests : HandleRequest(request, upstreams)

\* requests for the files routes whose token has the given aud and varies
\* in scope and scp
RequestsWithAud(aud) ==
    { Request("POST", path,
              Bearer(AuthToken(IdpKid, IdpPrivateKey, Issuer, TokenLifetime, aud, sc)),
              AbsentHeader, AbsentHeader, BodyConfig) :
        path \in FilesPaths, sc \in ScopeClaims }

\* one set of requests for each form of aud
AuthorizationRequests ==
    << RequestsWithAud(AudClaims[1]), RequestsWithAud(AudClaims[2]),
       RequestsWithAud(AudClaims[3]), RequestsWithAud(AudClaims[4]),
       RequestsWithAud(AudClaims[5]) >>

AuthorizationCall ==
    \E a \in DOMAIN AuthorizationRequests : \E request \in AuthorizationRequests[a] :
        HandleRequest(request, <<"ok", "ok">>)

\* requests without a token, for a files route or for the health route
AnonymousRequests ==
    { Request(method, path, NoAuthorization, AbsentHeader, AbsentHeader, BodyConfig) :
        path \in FilesPaths \cup { <<"health">> }, method \in {"GET", "POST"} }

AnonymousCall ==
    \E request \in AnonymousRequests : HandleRequest(request, <<"ok", "ok">>)

JwksUpstreams == { <<"ok", "ok">>, <<"error", "ok">>, <<"error", "error">>, <<"empty", "ok">> }

----------------------------------------------------------------------------
(* clientshim/secure_client.py : workflow tracking of the shim *)

\* contextvars.Context objects that can exist at once
MaxContexts == 4
\* workflow-state dicts created in one run
MaxStates == 2
\* wrapped tool calls made in one run
MaxCalls == 2

\* workflow runs of one process, each an asyncio task with a context of its own
Executions == {"e1", "e2"}

RootContext(e) == IF e = "e1" THEN 1 ELSE 2

\* both context variables are declared with default=None; a workflow state is
\* referred to by its position in workflow_states, 0 being None
DefaultContext == [current_agent |-> NoneStr, workflow_state |-> 0]

ShimWorkflowIds == {"w1"}

\* the agents the shim prepared at bootstrap, in the order of preparation:
\* agents without sub-agents first, then the agents that use agents as tools
ListFilesSpec == [name |-> "ListFiles", original_func |-> "list_files", is_async |-> TRUE, is_agent |-> FALSE, description |-> "list files"]
CheckSpec == [name |-> "check", original_func |-> "check", is_async |-> FALSE, is_agent |-> FALSE, description |-> "check"]
PlannerSpec == [name |-> "Planner", original_func |-> "Planner.ainvoke", is_async |-> TRUE, is_agent |-> TRUE, description |-> "plan"]

PreparedAgents ==
    << [id |-> "Planner", prompt |-> "plan", tool_specs |-> <<ListFilesSpec, CheckSpec>>],
       [id |-> "Patcher", prompt |-> "patch", tool_specs |-> <<ListFilesSpec>>],
       [id |-> "Supervisor", prompt |-> "supervise", tool_specs |-> <<PlannerSpec>>] >>

\* the wrappers _prepare_agent built, one per agent and tool (to_tool_spec)
Wrappers ==
    UNION { { [agent_id |-> PreparedAgents[i].id,
               tool_name |-> PreparedAgents[i].tool_specs[j].name,
               original_func |-> PreparedAgents[i].tool_specs[j].original_func,
               is_async |-> PreparedAgents[i].tool_specs[j].is_async] :
                j \in DOMAIN PreparedAgents[i].tool_specs } : i \in DOMAIN PreparedAgents }

\* str.lower() on the tool names in use
Lower(name) ==
    CASE name = "ListFiles" -> "listfiles"
      [] name = "Planner" -> "planner"
      [] OTHER -> name

\* tool_to_step_mapping is never assigned, so the default applies
_get_step_id_for_tool(agent_id, tool_name) == Lower(tool_name)

NewWorkflowState(ref, workflow_id, now) ==
    [execution_id |-> ref, workflow_id |-> workflow_id, completed_steps |-> <<>>,
     failed_steps |-> <<>>, history |-> <<>>, active_step |-> NoneRec, started_at |-> now]

\* a state carrier that is one variable of the process rather than of the
\* current context
workflow_state_Global(ctxs, states, ctx, now) ==
    IF ctxs[1].workflow_state # 0
    THEN [contexts |-> ctxs, workflow_states |-> states, ref |-> ctxs[1].workflow_state]
    ELSE [contexts |-> [ctxs EXCEPT ![1].workflow_state = Len(states) + 1],
          workflow_states |-> Append(states, NewWorkflowState(Len(states) + 1, NoneStr, now)),
          ref |-> Len(states) + 1]

\* the workflow_state property: the state of the current context, created and
\* set in this context when the context has none
workflow_state(ctxs, states, ctx, now) ==
    IF ctxs[ctx].workflow_state # 0
    THEN [contexts |-> ctxs, workflow_states |-> states, ref |-> ctxs[ctx].workflow_state]
    ELSE [contexts |-> [ctxs EXCEPT ![ctx].workflow_state = Len(states) + 1],
          workflow_states |-> Append(states, NewWorkflowState(Len(states) + 1, NoneStr, now)),
          ref |-> Len(states) + 1]

_record_tool_invocation(ctxs, states, ctx, agent_id, tool_name, status, error, now) ==
    LET step_id == _get_step_id_for_tool(agent_id, tool_name)
        got == workflow_state(ctxs, states, ctx, now)
        ref == got.ref
        active == got.workflow_states[ref].active_step
        matches == active # NoneRec /\ active.step_id = step_id
        completed_step == [step_id |-> step_id, agent_id |-> agent_id, tool_name |-> tool_name,
                           started_at |-> active.started_at, completed_at |-> now,
                           duration |-> now - active.started_at]
        failed_step == [step_id |-> step_id, agent_id |-> agent_id, tool_name |-> tool_name,
                        started_at |-> active.started_at, failed_at |-> now, error |-> error]
    IN  [contexts |-> got.contexts,
         workflow_states |->
            CASE status = "STARTED" ->
                    [got.workflow_states EXCEPT ![ref].active_step =
                        [step_id |-> step_id, agent_id |-> agent_id,
                         tool_name |-> tool_name, started_at |-> now]]
              [] status = "COMPLETED" /\ matches ->
                    [got.workflow_states EXCEPT
                        ![ref].history = Append(@, completed_step),
                        ![ref].completed_steps = Append(@, completed_step),
                        ![ref].active_step = NoneRec]
              [] status = "FAILED" /\ matches ->
                    [got.workflow_states EXCEPT
                        ![ref].history = Append(@, failed_step),
                        ![ref].failed_steps = Append(@, failed_step),
                        ![ref].active_step = NoneRec]
              [] OTHER -> got.workflow_states]

CurrentContext(e) == IF frames[e] = <<>> THEN RootContext(e) ELSE Last(frames[e]).ctx

UsedContexts ==
    {RootContext(e) : e \in Executions} \cup
    UNION {{frames[e][i].ctx : i \in DOMAIN frames[e]} : e \in Executions}

FreeContexts == (1..MaxContexts) \ UsedContexts

CallsMade ==
    LET RECURSIVE Sum(_)
        Sum(n) == IF n = 0 THEN 0 ELSE Len(workflow_states[n].history) + Sum(n - 1)
        depth == [e \in Executions |-> Len(frames[e])]
    IN  Sum(Len(workflow_states)) + depth["e1"] + depth["e2"]

start_workflow_execution(e, workflow_id) ==
    /\ frames[e] = <<>>
    /\ Len(workflow_states) < MaxStates
    /\ workflow_states' = Append(workflow_states,
                                 NewWorkflowState(Len(workflow_states) + 1, workflow_id, shim_now))
    /\ contexts' = [contexts EXCEPT ![RootContext(e)].workflow_state = Len(workflow_states) + 1]
    /\ shimRequest' = [op |-> "start_workflow_execution", execution |-> e]
    /\ shimResponse' = [raised |-> NoneStr]
    /\ UNCHANGED <<shim_now, frames, instances, _token_cache, idpVars, rsVars, lockVars, bootVars>>

end_workflow_execution(e) ==
    /\ frames[e] = <<>>
    /\ contexts[RootContext(e)].workflow_state # 0
    /\ contexts' = [contexts EXCEPT ![RootContext(e)].workflow_state = 0]
    /\ shimRequest' = [op |-> "end_workflow_execution", execution |-> e]
    /\ shimResponse' = [raised |-> NoneStr]
    /\ UNCHANGED <<shim_now, workflow_states, frames, instances, _token_cache, idpVars, rsVars, lockVars, bootVars>>

\* the agent's run_tool calls the wrapper of one of its tools; a tool of the
\* sub-agent is called while the sub-agent's ainvoke runs as the outer tool
MayCall(e, w) ==
    IF frames[e] = <<>> THEN TRUE
    ELSE /\ Last(frames[e]).original_func = "Planner.ainvoke"
         /\ w.agent_id = "Planner"

\* the wrapper up to the call of the original function.  new_task: the
\* caller runs the tool in a task or thread of its own, with a copy of the
\* caller's context; otherwise the wrapper is awaited in the caller's task.
CallTool(e, w, new_task) ==
    LET cur == CurrentContext(e)
        ctx == IF new_task THEN CHOOSE c \in FreeContexts : \A d \in FreeContexts : c <= d
               ELSE cur
        copied == IF new_task THEN [contexts EXCEPT ![ctx] = contexts[cur]] ELSE contexts
        entered == IF w.is_async THEN [copied EXCEPT ![ctx].current_agent = w.agent_id]
                   ELSE copied
        started == _record_tool_invocation(entered, workflow_states, ctx, w.agent_id,
                                           w.tool_name, "STARTED", NoneStr, shim_now)
    IN  /\ MayCall(e, w)
        /\ CallsMade < MaxCalls
        /\ new_task => FreeContexts # {}
        /\ contexts[cur].workflow_state = 0 => Len(workflow_states) < MaxStates
        /\ contexts' = started.contexts
        /\ workflow_states' = started.workflow_states
        /\ frames' = [frames EXCEPT ![e] = Append(@, [agent_id |-> w.agent_id,
                          tool_name |-> w.tool_name, original_func |-> w.original_func,
                          is_async |-> w.is_async, ctx |-> ctx, new_task |-> new_task])]
        /\ shimRequest' = [op |-> "call_tool", execution |-> e]
        /\ shimResponse' = [raised |-> NoneStr]
        /\ UNCHANGED <<shim_now, instances, _token_cache, idpVars, rsVars, lockVars, bootVars>>

\* the context of a finished task is garbage
Leave(ctxs, f) == IF f.new_task THEN [ctxs EXCEPT ![f.ctx] = DefaultContext] ELSE ctxs

\* the original function returns: the wrapper records COMPLETED and returns
ToolReturns(e) ==
    /\ frames[e] # <<>>
    /\ LET f == Last(frames[e])
           done == _record_tool_invocation(contexts, workflow_states, f.ctx, f.agent_id,
                                           f.tool_name, "COMPLETED", NoneStr, shim_now)
       IN  /\ contexts' = Leave(done.contexts, f)
           /\ workflow_states' = done.workflow_states
    /\ frames' = [frames EXCEPT ![e] = SubSeq(@, 1, Len(@) - 1)]
    /\ shimRequest' = [op |-> "tool_returns", execution |-> e]
    /\ shimResponse' = [raised |-> NoneStr]
    /\ UNCHANGED <<shim_now, instances, _token_cache, idpVars, rsVars, lockVars, bootVars>>

ToolErrors == {"boom"}

\* the original function raises an Exception: the wrapper records FAILED and
\* raises it again
ToolRaises(e, error) ==
    /\ frames[e] # <<>>
    /\ LET f == Last(frames[e])
           done == _record_tool_invocation(contexts, workflow_states, f.ctx, f.agent_id,
                                           f.tool_name, "FAILED", error, shim_now)
       IN  /\ contexts' = Leave(done.contexts, f)
           /\ workflow_states' = done.workflow_states
    /\ frames' = [frames EXCEPT ![e] = SubSeq(@, 1, Len(@) - 1)]
    /\ shimRequest' = [op |-> "tool_raises", execution |-> e]
    /\ shimResponse' = [raised |-> error]
    /\ UNCHANGED <<shim_now, instances, _token_cache, idpVars, rsVars, lockVars, bootVars>>

----------------------------------------------------------------------------
(* clientshim/secure_client.py : agent detection and token cache of the shim *)

\* longest time a token request to the IDP takes
MaxMintDelay == 1

\* tools registered with a deep checksum (_TOOLS_WITH_DEEP_CHECKSUM)
DeepTools == {"list_files"}

\* a function the attacker puts in place of list_files, with its signature
MaliciousFunc == "t4_malicious_list_files"

\* str(get_core_signature(func))
get_core_signature(func) ==
    CASE func \in {"list_files", MaliciousFunc} -> "(path)"
      [] func = "check" -> "()"
      [] OTHER -> "(state)"

\* the normalized source of a function
sourcecode(func) == <<"source", func>>

InternalTools == {"Done", "Yield"}

real_tool_specs(agent) == SelectSeq(agent.tool_specs, LAMBDA ts : ts.name \notin InternalTools)

to_agent_components(agent) ==
    [agent_id |-> agent.id,
     prompt_template |-> agent.prompt,
     tools |-> [j \in DOMAIN real_tool_specs(agent) |->
                  LET spec == real_tool_specs(agent)[j]
                  IN  [name |-> spec.name,
                       signature |-> get_core_signature(spec.original_func),
                       description |-> spec.description,
                       source_code |-> IF spec.original_func \in DeepTools
                                       THEN sourcecode(spec.original_func)
                                       ELSE <<"source", NoneStr>>,
                       is_agent |-> spec.is_agent]]]

\* compute_agent_checksum on the client: SHA-256 of the components, taken as
\* free of collisions over the agents of the shim
RuntimeChecksum(agent) == Sha256Hex(to_agent_components(agent))

AgentPrivateKey(agent_id) == IF agent_id = "Patcher" THEN PrivateK2 ELSE PrivateK1

\* _prepare_agent: the identity verified against the IDP at bootstrap
AgentIdentity(agent) ==
    [agent_id |-> agent.id, checksum |-> RuntimeChecksum(agent),
     private_key |-> AgentPrivateKey(agent.id)]

VerifiedIdentities == [i \in DOMAIN PreparedAgents |-> AgentIdentity(PreparedAgents[i])]

\* every agent is a ReActAgent, so the one entry of bridge_to_agent holds the
\* identity of the agent prepared last
bridge_to_agent == Last(VerifiedIdentities)

\* tool_to_agent[func]: identities of the agents prepared with func as a tool
tool_to_agent(func) ==
    LET Holds(i) == \E j \in DOMAIN PreparedAgents[i].tool_specs :
                        PreparedAgents[i].tool_specs[j].original_func = func
        RECURSIVE Collect(_)
        Collect(i) == IF i > Len(PreparedAgents) THEN <<>>
                      ELSE (IF Holds(i) THEN <<VerifiedIdentities[i]>> ELSE <<>>) \o Collect(i + 1)
    IN  Collect(1)

\* the orders in which gc.get_objects() can enumerate the agents
GcOrders ==
    {order \in [DOMAIN PreparedAgents -> DOMAIN PreparedAgents] :
        \A i, j \in DOMAIN order : order[i] = order[j] => i = j}

_find_react_agent_instances(objs, containing_tool) ==
    SelectSeq(objs, LAMBDA agent :
        \E j \in DOMAIN real_tool_specs(agent) :
            real_tool_specs(agent)[j].original_func = containing_tool)

Detected(agent_identity) == [raised |-> NoneStr, identity |-> agent_identity]
DetectionError(message) == [raised |-> message, identity |-> NoneRec]

\* the loop over the running instances (secure_client.py:712-728)
RECURSIVE VerifyInstances(_, _, _)
VerifyInstances(running, agent_identities, running_agent_id) ==
    IF running = <<>>
    THEN DetectionError("could not be verified")
    ELSE LET runtime_checksum == RuntimeChecksum(Head(running))
             matching == SelectSeq(agent_identities, LAMBDA a :
                             runtime_checksum = a.checksum /\ running_agent_id = a.agent_id)
         IN  IF \A k \in DOMAIN agent_identities : agent_identities[k].checksum # runtime_checksum
             THEN DetectionError("unregistered agent")
             ELSE IF matching # <<>>
                  THEN Detected(Head(matching))
                  ELSE VerifyInstances(Tail(running), agent_identities, running_agent_id)

\* inspect.stack() innermost first: the frame of the tool function, then its
\* wrapper, then, when the wrapper was awaited in the caller's task, the
\* frames of the caller, ReActAgent.run_tool with self an agent.  A frame of
\* an agent's ainvoke has self an agent as well.
_detect_current_agent_context(stack, ctxs, objs) ==
    IF stack = <<>>
    THEN DetectionError("No registered agent found")
    ELSE LET f == Last(stack)
             agent_identities == tool_to_agent(f.original_func)
             running == _find_react_agent_instances(objs, f.original_func)
         IN  IF f.original_func = "Planner.ainvoke"
             THEN Detected(bridge_to_agent)
             ELSE IF agent_identities # <<>> /\ running # <<>>
                  THEN VerifyInstances(running, agent_identities, ctxs[f.ctx].current_agent)
                  ELSE IF f.new_task
                       THEN DetectionError("No registered agent found")
                       ELSE Detected(bridge_to_agent)

\* str.join: the items with the separator between them
RECURSIVE Join(_, _)
Join(sep, items) ==
    IF items = <<>> THEN ""
    ELSE IF Len(items) = 1 THEN items[1]
    ELSE items[1] \o sep \o Join(sep, Tail(items))

\* "|".join(item for item in key_components if item)
_get_cache_key(key_components) ==
    Join("|", SelectSeq(key_components, LAMBDA item : item # NoneStr /\ item # ""))

\* "_".join(scopes)
JoinScopes(scopes) == Join("_", scopes)

RefreshSkew == 30

\* a validity test without the refresh skew
_is_token_valid_NoSkew(cached_token, now) == now < cached_token.expires_at

_is_token_valid(cached_token, now) == now < cached_token.expires_at - RefreshSkew

CacheGet(cache, key) ==
    IF \E i \in DOMAIN cache : cache[i].key = key
    THEN cache[CHOOSE i \in DOMAIN cache : cache[i].key = key]
    ELSE NoneRec

CachePut(cache, key, entry) ==
    IF \E i \in DOMAIN cache : cache[i].key = key
    THEN [i \in DOMAIN cache |-> IF cache[i].key = key THEN entry ELSE cache[i]]
    ELSE Append(cache, entry)

AppId == "patchet"
IdpAudience == "idp.localhost"
MintScope == "generate:intent-token"
OAuthExpiresIn == 30
DefaultExpiresIn == 300

OAuthCacheKey == _get_cache_key(<<AppId, IdpAudience, JoinScopes(<<MintScope>>)>>)

\* the IDP's answers to a token request: a token, or an error status
OAuthResponses == {[status |-> 200, expires_in |-> OAuthExpiresIn], [status |-> 401]}
IntentResponses == {[status |-> 200, expires_in |-> ExpiresIn], [status |-> 200], [status |-> 403]}

\* token.get("expires_in", 300)
ExpiresInOf(token_data) ==
    IF "expires_in" \in DOMAIN token_data THEN token_data.expires_in ELSE DefaultExpiresIn

\* what reaches the caller when a token call did not bring a token: except
\* Exception turns an HTTP error status and a transport error into
\* SecurityError; asyncio.CancelledError is a BaseException and passes through
RaisedBy(response) ==
    IF "exception" \in DOMAIN response
    THEN IF response.exception = "CancelledError" THEN "CancelledError" ELSE "SecurityError"
    ELSE "SecurityError"

\* a mint call that is sent a second time when its first answer is a failure
OAuthRequest_Retry(cache, now, oauth_response) ==
    LET cached_token == CacheGet(cache, OAuthCacheKey)
        token_request == [url |-> "/oauth/token", grant_type |-> "client_credentials",
                          scope |-> MintScope, audience |-> IdpAudience]
    IN  IF cached_token # NoneRec /\ _is_token_valid(cached_token, now)
        THEN [cache |-> cache, sent |-> <<>>, raised |-> FALSE]
        ELSE IF oauth_response.status # 200
             THEN [cache |-> cache, sent |-> <<token_request, token_request>>, raised |-> TRUE]
             ELSE [cache |-> CachePut(cache, OAuthCacheKey,
                                [key |-> OAuthCacheKey,
                                 access_token |-> [grant |-> "client_credentials", minted_at |-> now],
                                 expires_at |-> now + ExpiresInOf(oauth_response),
                                 scope |-> MintScope]),
                   sent |-> <<token_request>>, raised |-> FALSE]

\* str(e) of the failure of a token call, which the SecurityError messages
\* carry: the status line of raise_for_status or the name of the exception
FailureDetail(response) ==
    IF "exception" \in DOMAIN response THEN response.exception
    ELSE CASE response.status = 400 -> "400 Bad Request"
           [] response.status = 401 -> "401 Unauthorized"
           [] response.status = 403 -> "403 Forbidden"
           [] OTHER -> "error status"

\* authenticated_request(mode=oauth) as _mint_intent_token uses it, with
\* _mint_oauth_token: the cache after it, the requests sent, whether it raised
OAuthRequest(cache, now, oauth_response) ==
    LET cached_token == CacheGet(cache, OAuthCacheKey)
        token_request == [url |-> "/oauth/token", grant_type |-> "client_credentials",
                          scope |-> MintScope, audience |-> IdpAudience]
    IN  IF cached_token # NoneRec /\ _is_token_valid(cached_token, now)
        THEN [cache |-> cache, sent |-> <<>>, raised |-> FALSE]
        ELSE IF oauth_response.status # 200
             THEN [cache |-> cache, sent |-> <<token_request>>, raised |-> TRUE]
             ELSE [cache |-> CachePut(cache, OAuthCacheKey,
                                [key |-> OAuthCacheKey,
                                 access_token |-> [grant |-> "client_credentials", minted_at |-> now],
                                 expires_at |-> now + ExpiresInOf(oauth_response),
                                 scope |-> MintScope]),
                   sent |-> <<token_request>>, raised |-> FALSE]

\* the token request of _mint_intent_token (secure_client.py:784-800)
IntentTokenRequest(state, workflow_id, agent_identity, scopes, audience, workflow_enabled) ==
    [url |-> "/intent/token",
     grant_type |-> "agent_checksum",
     agent_id |-> agent_identity.agent_id,
     computed_checksum |-> agent_identity.checksum,
     workflow_id |-> workflow_id,
     workflow_step |-> state.active_step,
     requested_scopes |-> scopes,
     audience |-> audience,
     delegation_context |-> [workflow_id |-> workflow_id, execution_id |-> NoneStr,
                             chain |-> state.history,
                             completed_steps |-> state.completed_steps],
     workflow_enabled |-> workflow_enabled]

ShimOutcome(raised, detail, identity, reused, sent, headers) ==
    [raised |-> raised, detail |-> detail, identity |-> identity, reused |-> reused,
     sent |-> sent, headers |-> headers]

EmptyPopData == [method |-> NoneStr]

\* authenticated_request in intent mode, up to the yield of the client
authenticated_request(e, workflow_id, scopes, audience, pop_data, gc_order, oauth_response, intent_response, delay) ==
    LET ctx == CurrentContext(e)
        objs == [k \in DOMAIN gc_order |-> instances[gc_order[k]]]
        detection == _detect_current_agent_context(frames[e], contexts, objs)
        agent_identity == detection.identity
        cache_key == _get_cache_key(<<workflow_id, agent_identity.agent_id, audience,
                                      JoinScopes(scopes)>>)
        cached_token == CacheGet(_token_cache, cache_key)
        reuse == cached_token # NoneRec /\ _is_token_valid(cached_token, shim_now)
        got == workflow_state(contexts, workflow_states, ctx, shim_now)
        token_request == IntentTokenRequest(got.workflow_states[got.ref], workflow_id,
                                            agent_identity, scopes, audience, TRUE)
        oauth == OAuthRequest(_token_cache, shim_now, oauth_response)
        sent == oauth.sent \o <<token_request>>
        minted_at == shim_now + delay
        access_token == IF reuse THEN cached_token.access_token
                        ELSE [grant |-> "agent_checksum", sub |-> token_request.agent_id,
                              workflow_id |-> token_request.workflow_id,
                              workflow_step |-> token_request.workflow_step,
                              completed_steps |-> token_request.delegation_context.completed_steps,
                              aud |-> token_request.audience,
                              scope |-> token_request.requested_scopes,
                              minted_at |-> minted_at]
        headers == IF pop_data # EmptyPopData
                   THEN [Authorization |-> access_token,
                         PoP |-> PopHeaders(agent_identity.private_key, pop_data,
                                            agent_identity.checksum, minted_at)]
                   ELSE [Authorization |-> access_token]
    IN  /\ IF frames[e] = <<>> THEN TRUE ELSE Last(frames[e]).original_func # "Planner.ainvoke"
        /\ delay = 0 \/ shim_now \in {0, ExpiresIn - RefreshSkew - 1}
        /\ contexts[ctx].workflow_state = 0 => Len(workflow_states) < MaxStates
        /\ shimRequest' = [op |-> "authenticated_request", execution |-> e,
                           workflow_id |-> workflow_id, scopes |-> scopes,
                           audience |-> audience, pop_data |-> pop_data, at |-> shim_now,
                           caller |-> IF frames[e] = <<>> THEN NoneRec ELSE Last(frames[e]),
                           objs |-> objs]
        /\ UNCHANGED <<frames, instances, idpVars, rsVars, lockVars, bootVars>>
        /\ IF detection.raised # NoneStr
           THEN /\ shimResponse' = ShimOutcome("SecurityError", detection.raised, NoneRec,
                                               FALSE, <<>>, NoneRec)
                /\ UNCHANGED <<shim_now, contexts, workflow_states, _token_cache>>
           ELSE IF reuse
           THEN /\ shimResponse' = ShimOutcome(NoneStr, NoneStr, agent_identity, TRUE,
                                               <<>>, headers)
                /\ UNCHANGED <<shim_now, contexts, workflow_states, _token_cache>>
           ELSE /\ contexts' = got.contexts
                /\ workflow_states' = got.workflow_states
                /\ IF oauth.raised
                   THEN /\ shimResponse' = ShimOutcome(RaisedBy(oauth_response), FailureDetail(oauth_response),
                                                       agent_identity, FALSE, oauth.sent, NoneRec)
                        /\ _token_cache' = oauth.cache
                        /\ shim_now' = shim_now
                   ELSE IF intent_response.status # 200
                   THEN /\ shimResponse' = ShimOutcome(RaisedBy(intent_response), FailureDetail(intent_response),
                                                       agent_identity, FALSE, sent, NoneRec)
                        /\ _token_cache' = oauth.cache
                        /\ shim_now' = minted_at
                   ELSE /\ shimResponse' = ShimOutcome(NoneStr, NoneStr, agent_identity, FALSE,
                                                       sent, headers)
                        /\ _token_cache' = CachePut(oauth.cache, cache_key,
                                              [key |-> cache_key, access_token |-> access_token,
                                               expires_at |-> minted_at + ExpiresInOf(intent_response),
                                               scope |-> scopes])
                        /\ shim_now' = minted_at

\* authenticated_request in oauth mode with _mint_oauth_token, as util/reg.py
\* and the bootstrap call it, up to the yield of the client
authenticated_request_oauth(scopes, audience, oauth_response) ==
    LET cache_key == _get_cache_key(<<AppId, audience, JoinScopes(scopes)>>)
        cached_token == CacheGet(_token_cache, cache_key)
        reuse == cached_token # NoneRec /\ _is_token_valid(cached_token, shim_now)
        token_request == [url |-> "/oauth/token", grant_type |-> "client_credentials",
                          scope |-> scopes, audience |-> audience]
        access_token == IF reuse THEN cached_token.access_token
                        ELSE [grant |-> "client_credentials", sub |-> AppId,
                              workflow_id |-> NoneStr, aud |-> audience, scope |-> scopes,
                              minted_at |-> shim_now]
    IN  /\ shimRequest' = [op |-> "authenticated_request", mode |-> "oauth",
                           workflow_id |-> NoneStr, scopes |-> scopes, audience |-> audience,
                           at |-> shim_now]
        /\ UNCHANGED <<shim_now, contexts, workflow_states, frames, instances, idpVars, rsVars, lockVars, bootVars>>
        /\ IF reuse
           THEN /\ shimResponse' = ShimOutcome(NoneStr, NoneStr, [agent_id |-> AppId], TRUE,
                                               <<>>, [Authorization |-> access_token])
                /\ UNCHANGED _token_cache
           ELSE IF oauth_response.status # 200
           THEN /\ shimResponse' = ShimOutcome(RaisedBy(oauth_response), FailureDetail(oauth_response),
                                               [agent_id |-> AppId], FALSE, <<token_request>>,
                                               NoneRec)
                /\ UNCHANGED _token_cache
           ELSE /\ shimResponse' = ShimOutcome(NoneStr, NoneStr, [agent_id |-> AppId], FALSE,
                                               <<token_request>>,
                                               [Authorization |-> access_token])
                /\ _token_cache' = CachePut(_token_cache, cache_key,
                                      [key |-> cache_key, access_token |-> access_token,
                                       expires_at |-> shim_now + ExpiresInOf(oauth_response),
                                       scope |-> scopes])

\* authenticated_request in oauth mode as two tasks run it concurrently: a
\* call is suspended where it waits for the cache lock and where it awaits
\* the mint
Tasks == {"t1", "t2"}

Idle == [pc |-> "idle"]

\* the calls whose lookup found no valid token and whose token is not stored yet
Minting(key) ==
    {task \in Tasks : calls[task].pc \in {"mint", "lock_set", "set"} /\ calls[task].cache_key = key}

\* secure_client.py:857-862: the cache key; the call then waits for the lock.
\* rivals is history: the calls that were minting for the key at the lookup
EnterRequest(task, scopes, audience) ==
    /\ calls[task].pc = "idle"
    /\ calls' = [calls EXCEPT ![task] =
                    [pc |-> "lock_get", scopes |-> scopes, audience |-> audience,
                     cache_key |-> _get_cache_key(<<AppId, audience, JoinScopes(scopes)>>),
                     access_token |-> NoneRec, minted |-> FALSE, expires_in |-> 0,
                     rivals |-> {}]]
    /\ UNCHANGED <<shim_now, contexts, workflow_states, frames, instances, _token_cache,
                   shimRequest, shimResponse, _cache_lock, idpVars, rsVars, bootVars>>

\* with self._cache_lock: (secure_client.py:864 and 877)
AcquireLock(task) ==
    /\ calls[task].pc \in {"lock_get", "lock_set"}
    /\ _cache_lock = NoneStr
    /\ _cache_lock' = task
    /\ calls' = [calls EXCEPT ![task].pc = IF @ = "lock_get" THEN "get" ELSE "set"]
    /\ UNCHANGED <<shim_now, contexts, workflow_states, frames, instances, _token_cache,
                   shimRequest, shimResponse, idpVars, rsVars, bootVars>>

\* secure_client.py:865-870 and, on a valid cached token, 887-914
CacheLookup(task) ==
    /\ calls[task].pc = "get"
    /\ LET cached_token == CacheGet(_token_cache, calls[task].cache_key)
       IN  IF cached_token # NoneRec /\ _is_token_valid(cached_token, shim_now)
           THEN calls' = [calls EXCEPT ![task].pc = "yielded",
                                       ![task].access_token = cached_token.access_token]
           ELSE calls' = [calls EXCEPT ![task].pc = "mint",
                                       ![task].rivals = Minting(calls[task].cache_key)]
    /\ _cache_lock' = NoneStr
    /\ UNCHANGED <<shim_now, contexts, workflow_states, frames, instances, _token_cache,
                   shimRequest, shimResponse, idpVars, rsVars, bootVars>>

\* secure_client.py:873-874 with _mint_oauth_token: the awaited mint returns
MintReturns(task, oauth_response) ==
    /\ calls[task].pc = "mint"
    /\ IF oauth_response.status # 200
       THEN calls' = [calls EXCEPT ![task] = Idle]
       ELSE calls' = [calls EXCEPT ![task].pc = "lock_set", ![task].minted = TRUE,
                                   ![task].expires_in = ExpiresInOf(oauth_response),
                                   ![task].access_token =
                                       [grant |-> "client_credentials", sub |-> AppId,
                                        workflow_id |-> NoneStr, aud |-> calls[task].audience,
                                        scope |-> calls[task].scopes, minted_at |-> shim_now,
                                        minted_for |-> task]]
    /\ UNCHANGED <<shim_now, contexts, workflow_states, frames, instances, _token_cache,
                   shimRequest, shimResponse, _cache_lock, idpVars, rsVars, bootVars>>

\* secure_client.py:878-882 and 887-914: the token is cached and attached
CacheStore(task) ==
    /\ calls[task].pc = "set"
    /\ _token_cache' = CachePut(_token_cache, calls[task].cache_key,
                            [key |-> calls[task].cache_key,
                             access_token |-> calls[task].access_token,
                             expires_at |-> shim_now + calls[task].expires_in,
                             scope |-> calls[task].scopes])
    /\ _cache_lock' = NoneStr
    /\ calls' = [calls EXCEPT ![task].pc = "yielded"]
    /\ UNCHANGED <<shim_now, contexts, workflow_states, frames, instances,
                   shimRequest, shimResponse, idpVars, rsVars, bootVars>>

\* the caller leaves the async with block
ExitRequest(task) ==
    /\ calls[task].pc = "yielded"
    /\ calls' = [calls EXCEPT ![task] = Idle]
    /\ UNCHANGED <<shim_now, contexts, workflow_states, frames, instances, _token_cache,
                   shimRequest, shimResponse, _cache_lock, idpVars, rsVars, bootVars>>

\* the functions the @secure_tool decorators put in the registry at import
DecoratedTools == [name \in {"ListFiles", "check"} |-> IF name = "ListFiles" THEN "list_files" ELSE "check"]

SupervisorSpec == [name |-> "Supervisor", original_func |-> "Supervisor.ainvoke", is_async |-> TRUE, is_agent |-> TRUE, description |-> "supervise"]

\* an agent whose tool is the Supervisor, itself a user of the Planner
Director == [id |-> "Director", prompt |-> "direct", tool_specs |-> <<SupervisorSpec>>]

BootAgents == PreparedAgents \o <<Director>>

\* the PEM of the public half of a private key of the key manager
PublicPemOf(private_key) == IF private_key = PrivateK2 THEN PemK2 ELSE PemK1

\* the registration the IDP returns for an agent that was registered from
\* the code the client runs
FetchedRegistration(agent) ==
    [agent_id |-> agent.id, prompt |-> agent.prompt,
     tools |-> [j \in DOMAIN agent.tool_specs |->
                  [name |-> agent.tool_specs[j].name,
                   description |-> agent.tool_specs[j].description,
                   is_agent |-> agent.tool_specs[j].is_agent]],
     checksum |-> RuntimeChecksum(agent),
     public_key |-> PublicPemOf(AgentPrivateKey(agent.id))]

BootRegistrations == {FetchedRegistration(BootAgents[i]) : i \in DOMAIN BootAgents}

\* every tool that is an agent is itself among the registrations
ClosedRegistrations(registrations) ==
    \A i \in DOMAIN registrations : \A j \in DOMAIN registrations[i].tools :
        registrations[i].tools[j].is_agent =>
            \E k \in DOMAIN registrations :
                registrations[k].agent_id = registrations[i].tools[j].name

\* the dicts _fetch_idp_registered_agents can return: one entry per agent id,
\* in the order the IDP lists the registrations
FetchedOrders ==
    {registrations \in UNION {[1..n -> BootRegistrations] : n \in 0..Len(BootAgents)} :
        /\ \A i, k \in DOMAIN registrations :
              i # k => registrations[i].agent_id # registrations[k].agent_id
        /\ ClosedRegistrations(registrations)}

\* what await self._fetch_idp_registered_agents() can give
FetchOutcomes ==
    {[raised |-> FALSE, agents |-> registrations] : registrations \in FetchedOrders}
        \cup {[raised |-> TRUE, agents |-> <<>>]}

_contains_agents_as_tools(agent_registration) ==
    \E j \in DOMAIN agent_registration.tools : agent_registration.tools[j].is_agent

\* inspect.iscoroutinefunction of a tool function
IsCoroutine(func) == func # "check"

\* [to_tool_spec(tool) for tool in tools]: a tool that is missing from the
\* registry is looked up in verified_agents when it is an agent
RECURSIVE to_tool_spec(_, _, _, _)
to_tool_spec(tools, registry, verified, tool_specs) ==
    IF tools = <<>>
    THEN [raised |-> NoneStr, registry |-> registry, tool_specs |-> tool_specs]
    ELSE LET tool == Head(tools)
             known == tool.name \in DOMAIN registry
             resolved == IF known THEN registry
                         ELSE [name \in DOMAIN registry \cup {tool.name} |->
                                  IF name = tool.name THEN tool.name \o ".ainvoke"
                                  ELSE registry[name]]
         IN  IF ~known /\ ~tool.is_agent
             THEN [raised |-> "ValueError", registry |-> registry, tool_specs |-> tool_specs]
             ELSE IF ~known /\ tool.name \notin verified
             THEN [raised |-> "KeyError", registry |-> registry, tool_specs |-> tool_specs]
             ELSE to_tool_spec(Tail(tools), resolved, verified,
                      Append(tool_specs,
                             [name |-> tool.name, original_func |-> resolved[tool.name],
                              is_async |-> IsCoroutine(resolved[tool.name]),
                              is_agent |-> tool.is_agent,
                              description |-> tool.description]))

NotStarted ==
    [pc |-> "constructed", agent_registrations |-> <<>>, remaining |-> <<>>,
     prepared |-> NoneRec, raised |-> NoneStr]

Bootstrapped ==
    [pc |-> "done", agent_registrations |-> <<>>, remaining |-> <<>>,
     prepared |-> NoneRec, raised |-> NoneStr]

\* secure_client.py:359-377 up to the first _prepare_agent: the fetch and the
\* two lists; a fetch that raised ends the bootstrap
_register_agents_from_idp(fetched) ==
    /\ bootstrap.pc = "constructed"
    /\ LET agent_registrations == IF fetched.raised THEN <<>> ELSE fetched.agents
           no_agents_as_tools ==
               SelectSeq(agent_registrations, LAMBDA a : ~_contains_agents_as_tools(a))
           agents_as_tools ==
               SelectSeq(agent_registrations, LAMBDA a : _contains_agents_as_tools(a))
           remaining == no_agents_as_tools \o agents_as_tools
       IN  bootstrap' = [pc |-> IF remaining = <<>> THEN "done" ELSE "preparing",
                         agent_registrations |-> agent_registrations,
                         remaining |-> remaining, prepared |-> NoneRec, raised |-> NoneStr]
    /\ UNCHANGED <<shim_now, contexts, workflow_states, frames, instances, _token_cache,
                   shimRequest, shimResponse, _TOOL_REGISTRY, verified_agents,
                   idpVars, rsVars, lockVars>>

\* secure_client.py:392-531 for the next registration of the two loops; an
\* exception leaves _register_agents_from_idp
_prepare_agent ==
    /\ bootstrap.pc = "preparing"
    /\ LET agent_registration == Head(bootstrap.remaining)
           agent_id == agent_registration.agent_id
           refused == agent_id \in verified_agents \/ agent_registration.tools = <<>>
           built == to_tool_spec(agent_registration.tools, _TOOL_REGISTRY, verified_agents, <<>>)
           agent == [id |-> agent_id, prompt |-> agent_registration.prompt,
                     tool_specs |-> built.tool_specs]
           computed_checksum == RuntimeChecksum(agent)
           raised ==
               IF refused THEN "SecurityError"
               ELSE IF built.raised # NoneStr THEN built.raised
               ELSE IF computed_checksum # agent_registration.checksum THEN "SecurityError"
               ELSE IF \E i \in DOMAIN instances : RuntimeChecksum(instances[i]) = computed_checksum
               THEN "SecurityError"
               ELSE IF PublicPemOf(AgentPrivateKey(agent_id)) # agent_registration.public_key
               THEN "SecurityError"
               ELSE NoneStr
       IN  /\ _TOOL_REGISTRY' = IF refused THEN _TOOL_REGISTRY ELSE built.registry
           /\ IF raised = NoneStr
              THEN /\ verified_agents' = verified_agents \cup {agent_id}
                   /\ instances' = Append(instances, agent)
                   /\ bootstrap' = [bootstrap EXCEPT
                                       !.pc = IF Tail(bootstrap.remaining) = <<>>
                                              THEN "done" ELSE "preparing",
                                       !.remaining = Tail(bootstrap.remaining),
                                       !.prepared = agent_registration]
              ELSE /\ bootstrap' = [bootstrap EXCEPT !.pc = "raised", !.raised = raised,
                                                     !.prepared = agent_registration]
                   /\ UNCHANGED <<verified_agents, instances>>
    /\ UNCHANGED <<shim_now, contexts, workflow_states, frames, _token_cache,
                   shimRequest, shimResponse, idpVars, rsVars, lockVars>>

\* in-memory modification of a live agent after bootstrap: its prompt
MutatePrompt(i) ==
    /\ instances[i].prompt = PreparedAgents[i].prompt
    /\ instances' = [instances EXCEPT ![i].prompt = "evil"]
    /\ UNCHANGED <<shim_now, contexts, workflow_states, frames, _token_cache, shimRequest,
                   shimResponse, idpVars, rsVars, lockVars, bootVars>>

\* demo/t4: ts.original_func = ts.func = malicious on a ToolSpec of the agent;
\* the StructuredTool built in __init__ keeps the wrapper it was given
ReplaceTool(i, j) ==
    /\ j \in DOMAIN instances[i].tool_specs
    /\ instances[i].tool_specs[j].original_func # MaliciousFunc
    /\ ~instances[i].tool_specs[j].is_agent
    /\ instances' = [instances EXCEPT ![i].tool_specs[j].original_func = MaliciousFunc]
    /\ UNCHANGED <<shim_now, contexts, workflow_states, frames, _token_cache, shimRequest,
                   shimResponse, idpVars, rsVars, lockVars, bootVars>>

\* time passes on the client host
ShimTimes == {0, ExpiresIn - RefreshSkew - 1, ExpiresIn - RefreshSkew, ExpiresIn}

ShimTick ==
    /\ \E t \in ShimTimes : t > shim_now /\ shim_now' = t
    /\ UNCHANGED <<contexts, workflow_states, frames, instances, _token_cache, shimRequest,
                   shimResponse, idpVars, rsVars, lockVars, bootVars>>

----------------------------------------------------------------------------

NoCall == [op |-> "none"]

\* the resource server before its first request, PoP verification enabled
RsInit ==
    /\ rs_env = [API_POP_ENABLED |-> TRUE, INTENT_AUTH_MODE |-> TRUE]
    /\ rs_now = 0
    /\ jwks = [kid_to_pem |-> <<>>, expires_at |-> 0]
    /\ rsRequest = NoCall
    /\ rsResponse = Handled(RsResponse(0, FALSE, FALSE, 0), 0)

\* the shim after bootstrap: agents prepared, no workflow run started
ShimInit ==
    /\ shim_now = 0
    /\ contexts = [c \in 1..MaxContexts |-> DefaultContext]
    /\ workflow_states = <<>>
    /\ frames = [e \in Executions |-> <<>>]
    /\ instances = PreparedAgents
    /\ _token_cache = <<>>
    /\ shimRequest = NoCall
    /\ shimResponse = [raised |-> NoneStr]
    /\ calls = [task \in Tasks |-> Idle]
    /\ _cache_lock = NoneStr
    /\ _TOOL_REGISTRY = [name \in DOMAIN DecoratedTools \cup {"Planner"} |->
                            IF name = "Planner" THEN "Planner.ainvoke" ELSE DecoratedTools[name]]
    /\ verified_agents = {PreparedAgents[i].id : i \in DOMAIN PreparedAgents}
    /\ bootstrap = Bootstrapped

\* the shim when SecureClient() returns, before the bootstrap
ShimConstructed ==
    /\ shim_now = 0
    /\ contexts = [c \in 1..MaxContexts |-> DefaultContext]
    /\ workflow_states = <<>>
    /\ frames = [e \in Executions |-> <<>>]
    /\ instances = <<>>
    /\ _token_cache = <<>>
    /\ shimRequest = NoCall
    /\ shimResponse = [raised |-> NoneStr]
    /\ calls = [task \in Tasks |-> Idle]
    /\ _cache_lock = NoneStr
    /\ _TOOL_REGISTRY = DecoratedTools
    /\ verified_agents = {}
    /\ bootstrap = NotStarted

\* the registries are empty when no registry file exists (lifespan)
Init ==
    /\ registered_agents = <<>>
    /\ registered_workflows = <<>>
    /\ idp_now = 0
    /\ idpRequest = NoCall
    /\ idpResponse = [status |-> 0]
    /\ RsInit
    /\ ShimInit

\* lifespan loads the registry file a previous run saved
InitLoaded ==
    /\ registered_agents = LoadedAgents
    /\ registered_workflows = <<>>
    /\ idp_now = 0
    /\ idpRequest = NoCall
    /\ idpResponse = [status |-> 0]
    /\ RsInit
    /\ ShimInit

\* agent registration and minting without workflow validation
NextRegistry ==
    \/ \E r \in RegistrationRequests : RegisterAgent(r)
    \/ \E b \in BatchRegistrationRequests : BatchRegisterAgent(b)
    \/ \E t \in PlainTokenRequests : MintToken(t, <<>>)
    \/ IdpTick

SpecRegistry == Init /\ [][NextRegistry]_vars

\* workflow validation: dependencies, required steps, approval
NextOrder ==
    \/ \E w \in OrderWorkflows : RegisterWorkflow(w)
    \/ \E id \in WorkflowIds : DeregisterWorkflow(id)
    \/ \E t \in OrderTokenRequests : MintToken(t, <<>>)

SpecOrder == InitLoaded /\ [][NextOrder]_vars

AppIds == {"app", "other"}

\* every operation of the IDP on a registry of agent histories
NextHistory ==
    \/ \E r \in {q \in RegistrationRequests : q.public_key = PemK1} : RegisterAgent(r)
    \/ \E b \in BatchRegistrationRequests : BatchRegisterAgent(b)
    \/ RegisterWorkflow(SecondWorkflow)
    \/ DeregisterWorkflow(SecondWorkflow.workflow_id)
    \/ \E t \in PlainTokenRequests : MintToken(t, <<>>)
    \/ \E app_id \in AppIds : get_registered_agents(app_id)
    \/ \E app_id \in AppIds : \E a \in AgentIds \cup {UnknownAgent} : get_single_agent(app_id, a)

SpecHistory == Init /\ [][NextHistory]_vars

\* workflow registration, single and in batches
NextWorkflows ==
    \/ \E w \in PostedWorkflows : RegisterWorkflow(w)
    \/ \E b \in WorkflowBatches : BatchRegisterWorkflow(b)
    \/ \E id \in WorkflowIds \cup {t7_workflow.workflow_id} : DeregisterWorkflow(id)

SpecWorkflows == InitLoaded /\ [][NextWorkflows]_vars

\* the IDP with the saved registry and a shim that has just been constructed
InitBootstrap ==
    /\ registered_agents = LoadedAgents
    /\ registered_workflows = <<>>
    /\ idp_now = 0
    /\ idpRequest = NoCall
    /\ idpResponse = [status |-> 0]
    /\ RsInit
    /\ ShimConstructed

\* the bootstrap of a client over every order of the fetched registrations
NextBootstrap ==
    \/ \E fetched \in FetchOutcomes : _register_agents_from_idp(fetched)
    \/ _prepare_agent

SpecBootstrap == InitBootstrap /\ [][NextBootstrap]_vars

\* workflow validation: workflow, step, agent, action, scopes
NextBinding ==
    \/ \E w \in BindingWorkflows \cup {SecondWorkflow} : RegisterWorkflow(w)
    \/ \E id \in WorkflowIds : DeregisterWorkflow(id)
    \/ \E t \in BindingTokenRequests \cup FailFastTokenRequests :
           \E hs \in GrantedScopeLists : MintToken(t, hs)

SpecBinding == InitLoaded /\ [][NextBinding]_vars

\* the resource server with PoP verification enabled or disabled
InitPop ==
    /\ registered_agents = LoadedAgents
    /\ registered_workflows = <<>>
    /\ idp_now = 0
    /\ idpRequest = NoCall
    /\ idpResponse = [status |-> 0]
    /\ rs_env \in [API_POP_ENABLED : BOOLEAN, INTENT_AUTH_MODE : {TRUE}]
    /\ rs_now = 0
    /\ jwks = [kid_to_pem |-> <<>>, expires_at |-> 0]
    /\ rsRequest = NoCall
    /\ rsResponse = Handled(RsResponse(0, FALSE, FALSE, 0), 0)
    /\ ShimInit

NextPop ==
    \/ \E r \in PopRequests : HandleRequest(r, <<"ok", "ok">>)
    \/ RsTick

SpecPop == InitPop /\ [][NextPop]_vars

\* authentication and authorization on the resource server
NextAuth ==
    \/ \E upstreams \in JwksUpstreams : AuthenticationCall(upstreams)
    \/ AuthorizationCall
    \/ AnonymousCall
    \/ RsTick

\* the resource server with PoP verification disabled (API_POP_ENABLED unset)
InitAuth == InitPop /\ ~rs_env.API_POP_ENABLED

SpecAuth == InitAuth /\ [][NextAuth]_vars

ShimPopData == [method |-> "POST", url |-> ReadUrl, data |-> ConfigData]

OkResponses == <<[status |-> 200, expires_in |-> OAuthExpiresIn], [status |-> 200, expires_in |-> ExpiresIn]>>

\* workflow tracking of two concurrent workflow runs, the agents unmodified
NextTrack ==
    \/ \E e \in Executions : \E w \in ShimWorkflowIds : start_workflow_execution(e, w)
    \/ \E e \in Executions : end_workflow_execution(e)
    \/ \E e \in Executions : \E w \in Wrappers : \E new_task \in BOOLEAN : CallTool(e, w, new_task)
    \/ \E e \in Executions : ToolReturns(e)
    \/ \E e \in Executions : \E error \in ToolErrors : ToolRaises(e, error)
    \/ \E e \in Executions : \E gc_order \in {order \in GcOrders : order[1] = 1 /\ order[3] = 3} :
          authenticated_request(e, "w1", <<ScopeRead>>, FilesAudience, EmptyPopData,
                                gc_order, OkResponses[1], OkResponses[2], 0)

SpecTrack == InitLoaded /\ [][NextTrack]_vars

\* agent detection: one workflow run, the live agents modified in memory
NextDetect ==
    \/ \E w \in Wrappers : \E new_task \in BOOLEAN : CallTool("e1", w, new_task)
    \/ ToolReturns("e1")
    \/ \E i \in {1, 2} : MutatePrompt(i)
    \/ \E i \in {1, 2} : ReplaceTool(i, 1)
    \/ \E gc_order \in {order \in GcOrders : order[3] = 3} :
          authenticated_request("e1", "w1", <<ScopeRead>>, FilesAudience, EmptyPopData,
                                gc_order, OkResponses[1], OkResponses[2], 0)

SpecDetect == InitLoaded /\ [][NextDetect]_vars

CacheScopes == {<<ScopeRead>>, <<ScopeRead, ScopeWrite>>}

\* a request made with either scope list and any answer of the IDP
CacheRequest ==
    \E scopes \in CacheScopes : \E oauth_response \in OAuthResponses :
    \E intent_response \in IntentResponses : \E delay \in 0..MaxMintDelay :
    \E gc_order \in {order \in GcOrders : order[1] = 1 /\ order[3] = 3} :
        authenticated_request("e1", "w1", scopes, FilesAudience, EmptyPopData,
                              gc_order, oauth_response, intent_response, delay)

\* the token cache: requests made during one tool call of Planner or of
\* Patcher, which meet a cached token before, at and after its refresh time
NextCache ==
    \/ \E w \in {v \in Wrappers : v.tool_name = "ListFiles"} : CallTool("e1", w, FALSE)
    \/ ShimTick
    \/ CacheRequest

SpecCache == InitLoaded /\ [][NextCache]_vars

\* what callers pass as workflow_id, audience and scopes: values present and
\* absent, a name used as an audience by one caller and as a scope by another
KeyWorkflowIds == {NoneStr, "w1"}
KeyAudiences == {NoneStr, FilesAudience}
KeyScopes == {<<>>, <<FilesAudience>>, <<ScopeRead>>}

\* the number of cache entries after which no further request is made
MaxCacheEntries == 3

IntentKeyRequest ==
    /\ Len(_token_cache) < MaxCacheEntries
    /\ \E workflow_id \in KeyWorkflowIds : \E audience \in KeyAudiences :
       \E scopes \in KeyScopes :
       \E gc_order \in {order \in GcOrders : order[1] = 1 /\ order[3] = 3} :
        authenticated_request("e1", workflow_id, scopes, audience, EmptyPopData,
                              gc_order, OkResponses[1], OkResponses[2], 0)

OAuthKeyRequest ==
    /\ Len(_token_cache) < MaxCacheEntries
    /\ \E audience \in KeyAudiences : \E scopes \in KeyScopes :
       \E oauth_response \in OAuthResponses :
        authenticated_request_oauth(scopes, audience, oauth_response)

\* the answers to the two calls of a mint: a token, an error status, a
\* transport error, the cancellation of the calling task during the call
MintFailures == {[status |-> 400], [status |-> 401], [status |-> 403], [status |-> 0, exception |-> "ConnectError"], [status |-> 0, exception |-> "CancelledError"]}
MintOAuthResponses == {OkResponses[1], [status |-> 401], [status |-> 0, exception |-> "ConnectError"], [status |-> 0, exception |-> "CancelledError"]}
MintIntentResponses == {OkResponses[2]} \cup MintFailures

MintRequest ==
    \E scopes \in CacheScopes : \E oauth_response \in MintOAuthResponses :
    \E intent_response \in MintIntentResponses :
    \E gc_order \in {order \in GcOrders : order[1] = 1 /\ order[3] = 3} :
        authenticated_request("e1", "w1", scopes, FilesAudience, EmptyPopData,
                              gc_order, oauth_response, intent_response, 0)

\* minting: requests whose token calls succeed, are refused, fail or are
\* cancelled, with and without a cached token
NextMint ==
    \/ \E w \in {v \in Wrappers : v.tool_name = "ListFiles"} : CallTool("e1", w, FALSE)
    \/ ShimTick
    \/ MintRequest

SpecMint == InitLoaded /\ [][NextMint]_vars

RaceScopes == {<<"register:intent">>, <<"read:agents">>}
RaceResponses == {OkResponses[1], [status |-> 200], [status |-> 401]}

\* two tasks that call authenticated_request in oauth mode concurrently
NextRace ==
    \/ \E task \in Tasks : \E scopes \in RaceScopes : EnterRequest(task, scopes, IdpAudience)
    \/ \E task \in Tasks : AcquireLock(task)
    \/ \E task \in Tasks : CacheLookup(task)
    \/ \E task \in Tasks : \E oauth_response \in RaceResponses : MintReturns(task, oauth_response)
    \/ \E task \in Tasks : CacheStore(task)
    \/ \E task \in Tasks : ExitRequest(task)

SpecRace == InitLoaded /\ [][NextRace]_vars

\* the cache keys: requests in both modes by Planner and by Patcher with
\* components present and absent
NextKey ==
    \/ \E w \in {v \in Wrappers : v.tool_name = "ListFiles"} : CallTool("e1", w, FALSE)
    \/ IntentKeyRequest
    \/ OAuthKeyRequest

SpecKey == InitLoaded /\ [][NextKey]_vars

----------------------------------------------------------------------------
(* util/cryptography.py : the client's JWK form of a PoP public key *)

get_public_key_jwk(public_key_pem) ==
    [kty |-> "RSA", use |-> "sig", alg |-> "RS256",
     n |-> <<"b64url", PemModulus(public_key_pem)>>,
     e |-> <<"b64url", PublicExponent>>]

----------------------------------------------------------------------------
(* Properties of the IDP *)

IsMint == idpRequest.op = "mint_token"

Minted == IsMint /\ idpResponse.status = 200

MintedToken == idpResponse.body.access_token

\* the request passed the grant, agent and checksum checks of mint_token
ReachedWorkflowValidation ==
    /\ IsMint
    /\ idpRequest.arg.grant_type = "agent_checksum"
    /\ idpRequest.arg.agent_id \in DOMAIN registered_agents
    /\ idpRequest.arg.computed_checksum = Last(registered_agents[idpRequest.arg.agent_id]).checksum
    /\ idpRequest.arg.workflow_enabled

WorkflowRegistered(workflow_id) ==
    \E i \in DOMAIN registered_workflows : registered_workflows[i].key = workflow_id

\* the steps of the latest definition of the requested workflow
RequestedSteps ==
    LET i == CHOOSE j \in DOMAIN registered_workflows :
                 registered_workflows[j].key = idpRequest.arg.workflow_id
        defs == registered_workflows[i].defs
    IN  defs[Len(defs)].steps

StepDefined(steps, step_id) == \E i \in DOMAIN steps : steps[i].key = step_id

\* the position of the requested step in the enumeration order
RequestedStepPos ==
    CHOOSE i \in DOMAIN RequestedSteps :
        RequestedSteps[i].key = idpRequest.arg.workflow_step.step_id

RequestedStepDef == RequestedSteps[RequestedStepPos]

\* the workflow is registered and the active step is one of its steps
RequestNamesStep ==
    /\ WorkflowRegistered(idpRequest.arg.workflow_id)
    /\ idpRequest.arg.workflow_step # NoneRec
    /\ StepDefined(RequestedSteps, idpRequest.arg.workflow_step.step_id)

RequestCompletedIds ==
    IF idpRequest.arg.delegation_context = NoneRec THEN {}
    ELSE { idpRequest.arg.delegation_context.completed_steps[i].step_id :
             i \in DOMAIN idpRequest.arg.delegation_context.completed_steps }

\* C1: no two registrations stored under different agent_ids have the same
\* checksum, and a register_agent call whose checksum equals that of an
\* existing registration of another agent_id is answered 400 and leaves the
\* registry as it was.
C1_NoSharedChecksum ==
    \A a \in DOMAIN registered_agents : \A b \in DOMAIN registered_agents :
        a # b =>
            \A i \in DOMAIN registered_agents[a] : \A j \in DOMAIN registered_agents[b] :
                registered_agents[a][i].checksum # registered_agents[b][j].checksum

C1_CollisionStep ==
    (/\ idpRequest'.op = "register_agent"
     /\ \E b \in DOMAIN registered_agents :
            /\ b # idpRequest'.arg.agent_components.agent_id
            /\ \E j \in DOMAIN registered_agents[b] :
                   registered_agents[b][j].checksum =
                       compute_agent_checksum(idpRequest'.arg.agent_components))
    => (idpResponse'.status = 400 /\ registered_agents' = registered_agents)

C1_CollisionRejected == [](C1_NoSharedChecksum) /\ [][C1_CollisionStep]_vars

\* a registration was refused because another agent_id owns its checksum
C1_Witness ==
    /\ idpRequest.op = "register_agent"
    /\ idpResponse.status = 400
    /\ \E b \in DOMAIN registered_agents :
           /\ b # idpRequest.arg.agent_components.agent_id
           /\ \E j \in DOMAIN registered_agents[b] :
                  registered_agents[b][j].checksum =
                      compute_agent_checksum(idpRequest.arg.agent_components)

\* C2: mint_token issues a token only when computed_checksum equals the
\* checksum of the latest registration of agent_id; a supported-grant request
\* of a registered agent with any other checksum gets 401; the checksum of an
\* earlier version of a re-registered agent is never accepted.
C2_LatestChecksumOnly ==
    IsMint =>
        LET req == idpRequest.arg
            known == req.agent_id \in DOMAIN registered_agents
            history == registered_agents[req.agent_id]
        IN  /\ idpResponse.status = 200 =>
                (known /\ req.computed_checksum = history[Len(history)].checksum)
            /\ (/\ req.grant_type = "agent_checksum"
                /\ known
                /\ req.computed_checksum # history[Len(history)].checksum)
               => idpResponse.status = 401
            /\ (/\ known
                /\ \E i \in 1 .. (Len(history) - 1) :
                       history[i].checksum = req.computed_checksum)
               => idpResponse.status # 200

\* a request with the checksum of an earlier version of a re-registered
\* agent was refused
C2_Witness ==
    /\ IsMint
    /\ idpRequest.arg.grant_type = "agent_checksum"
    /\ idpRequest.arg.agent_id \in DOMAIN registered_agents
    /\ Len(registered_agents[idpRequest.arg.agent_id]) >= 2
    /\ registered_agents[idpRequest.arg.agent_id][1].checksum = idpRequest.arg.computed_checksum
    /\ idpResponse.status = 401

\* C3: with workflow_enabled, a token is issued only if the workflow is
\* registered, the active step is defined in its latest definition, and the
\* active step's agent_id and tool_name equal the step's agent and action;
\* a request that reached workflow validation and fails one of these gets 403.
C3_StepBinding ==
    LET req == idpRequest.arg
        bound == /\ RequestNamesStep
                 /\ req.workflow_step.agent_id = RequestedStepDef.agent
                 /\ req.workflow_step.tool_name = RequestedStepDef.action
    IN  /\ (Minted /\ req.workflow_enabled) => bound
        /\ (ReachedWorkflowValidation /\ ~bound) => idpResponse.status = 403

\* a request for a defined step by the step's agent with another tool was refused
C3_Witness ==
    /\ ReachedWorkflowValidation
    /\ RequestNamesStep
    /\ idpRequest.arg.workflow_step.agent_id = RequestedStepDef.agent
    /\ idpRequest.arg.workflow_step.tool_name # RequestedStepDef.action
    /\ idpResponse.status = 403

\* C4: with workflow_enabled, a token is issued for a step only if every id
\* in the step's dependencies is among the step_ids of completed_steps (none
\* when completed_steps is empty); a request that reached workflow validation
\* with an uncompleted dependency gets 403.
C4_DependenciesCompleted ==
    LET req == idpRequest.arg
    IN  /\ (Minted /\ req.workflow_enabled) =>
               (/\ RequestNamesStep
                /\ \A i \in DOMAIN RequestedStepDef.dependencies :
                       RequestedStepDef.dependencies[i] \in RequestCompletedIds)
        /\ (/\ ReachedWorkflowValidation
            /\ RequestNamesStep
            /\ \E i \in DOMAIN RequestedStepDef.dependencies :
                   RequestedStepDef.dependencies[i] \notin RequestCompletedIds)
           => idpResponse.status = 403

\* after completing one of two dependencies only, the request was refused
C4_Witness ==
    /\ ReachedWorkflowValidation
    /\ RequestNamesStep
    /\ RequestCompletedIds # {}
    /\ \E i \in DOMAIN RequestedStepDef.dependencies :
           RequestedStepDef.dependencies[i] \in RequestCompletedIds
    /\ \E i \in DOMAIN RequestedStepDef.dependencies :
           RequestedStepDef.dependencies[i] \notin RequestCompletedIds
    /\ idpResponse.status = 403

\* C5: with workflow_enabled, a token is issued for step S only if every
\* required step defined before S in the enumeration order is in
\* completed_steps.
C5_RequiredPrefix ==
    (Minted /\ idpRequest.arg.workflow_enabled) =>
        (/\ RequestNamesStep
         /\ \A i \in 1 .. (RequestedStepPos - 1) :
                RequestedSteps[i].required => RequestedSteps[i].key \in RequestCompletedIds)

\* C6: with workflow_enabled, a token is issued for a requires_approval step
\* only if an approval_gate step precedes it and the nearest such gate is in
\* completed_steps.
C6_ApprovalRule ==
    (Minted /\ idpRequest.arg.workflow_enabled) =>
        (/\ RequestNamesStep
         /\ RequestedStepDef.requires_approval =>
                \E g \in 1 .. (RequestedStepPos - 1) :
                    /\ RequestedSteps[g].approval_gate
                    /\ \A h \in (g + 1) .. (RequestedStepPos - 1) :
                           ~RequestedSteps[h].approval_gate
                    /\ RequestedSteps[g].key \in RequestCompletedIds)

\* C7: with workflow_enabled, the scope claim of a token minted for step S
\* contains only scopes that S declares.
C7_ScopeSubset ==
    (Minted /\ idpRequest.arg.workflow_enabled) =>
        (/\ RequestNamesStep
         /\ \A i \in DOMAIN MintedToken.scope :
                \E j \in DOMAIN RequestedStepDef.scopes :
                    RequestedStepDef.scopes[j] = MintedToken.scope[i])

\* C8: a minted token has sub = request.agent_id, the checksum and the
\* registration_id of the agent's latest registration in agent_proof, and in
\* cnf.jwk the JWK form of the public key stored in that registration.
C8_TokenBinding ==
    Minted =>
        LET history == registered_agents[idpRequest.arg.agent_id]
            latest == history[Len(history)]
        IN  /\ MintedToken.sub = idpRequest.arg.agent_id
            /\ MintedToken.agent_proof.agent_checksum = latest.checksum
            /\ MintedToken.agent_proof.registration_id = latest.registration_id
            /\ MintedToken.cnf.jwk = get_public_key_jwk(latest.public_key)

\* a token was minted for an agent re-registered with another key at a later time
C8_Witness ==
    /\ Minted
    /\ Len(registered_agents[idpRequest.arg.agent_id]) >= 2
    /\ registered_agents[idpRequest.arg.agent_id][1].public_key #
           registered_agents[idpRequest.arg.agent_id][2].public_key
    /\ registered_agents[idpRequest.arg.agent_id][1].registration_id #
           registered_agents[idpRequest.arg.agent_id][2].registration_id

----------------------------------------------------------------------------
(* C9, C10 : proof of possession at the resource server *)

\* the last request was a bearer-authenticated POST to a protected route of
\* a resource server with PoP verification enabled
PopProtectedCall ==
    /\ rsRequest # NoCall
    /\ rs_env.API_POP_ENABLED
    /\ rsRequest.authorization.kind = "bearer"
    /\ \E r \in Routes : r.protected /\ r.path = rsRequest.path /\ r.method = rsRequest.method

PresentedClaims == rsRequest.authorization.token.claims

\* the presented signature is well-formed base64 and was not made by the
\* key the token's cnf.jwk names
SignatureOfOtherKey ==
    /\ rsRequest.PoP.kind = "b64"
    /\ rsRequest.timestamp.kind = "str"
    /\ rsRequest.PoP.signature.signer #
           PrivateKeyOfModulus(jwk_to_public_key(PresentedClaims.cnf.jwk).n)

\* the X-PoP-Timestamp was older than the configured clock skew when the
\* request was handled
StaleTimestamp ==
    /\ rsRequest.PoP.kind = "b64"
    /\ rsRequest.timestamp.kind = "str"
    /\ rsResponse.handled_at - rsRequest.timestamp.int > clock_skew_seconds

\* C9: with PoP enabled, a request to a protected route (its body a JSON
\* object, as the routes take) whose PoP header is absent, whose PoP
\* timestamp is stale or whose PoP signature does not verify against the
\* token's cnf.jwk is answered 401 and the endpoint handler does not run.
C9_PopFailureRejected ==
    (/\ PopProtectedCall
     /\ json_loads(rsRequest.body).type = "dict"
     /\ (rsRequest.PoP.kind = "absent" \/ StaleTimestamp \/ SignatureOfOtherKey))
        => (rsResponse.status = 401 /\ ~rsResponse.handler_ran)

\* the tuple of the received request: its method, its URL, the SHA-256 of
\* its body, the token's agent checksum and the X-PoP-Timestamp header
ReceivedTuple ==
    PopMessage(rsRequest.method, RequestUrl(rsRequest), Sha256Hex(rsRequest.body),
               PresentedClaims.agent_proof.agent_checksum, rsRequest.timestamp.int)

\* C10: PoP binding: with PoP enabled, verification succeeds only if the
\* signed (method, url, body hash, checksum, timestamp) equals the method, the
\* URL and the SHA-256 body hash of the received request, the token's
\* agent_proof.agent_checksum and the X-PoP-Timestamp header.
C10_PopBinding ==
    (PopProtectedCall /\ rsResponse.pop_verified)
        => rsRequest.PoP.signature.message = ReceivedTuple

----------------------------------------------------------------------------
(* Agent detection of the shim *)

\* an intent-mode authenticated_request made from the body of a wrapped tool
ShimCall == shimRequest.op = "authenticated_request"

ToolCall == ShimCall /\ shimRequest.caller # NoneRec

\* the live agents whose components differ from what was prepared at bootstrap
ModifiedIds(objs) == {objs[k].id : k \in {k \in DOMAIN objs : objs[k] \notin Range(PreparedAgents)}}

CallOfModifiedAgent == ToolCall /\ shimRequest.caller.agent_id \in ModifiedIds(shimRequest.objs)

\* C11: an intent-mode authenticated_request made from a tool call of an agent
\* whose prompt or tool function was modified after bootstrap raises a
\* SecurityError before any token request is sent.
C11_MutationCaught ==
    CallOfModifiedAgent => shimResponse.raised = "SecurityError" /\ shimResponse.sent = <<>>

\* the value of _current_agent_context the call read
RunningAgentId == contexts[shimRequest.caller.ctx].current_agent

\* the live instances holding the calling tool whose recomputed checksum is
\* that of an identity registered for the tool
RegisteredHolders ==
    {k \in DOMAIN shimRequest.objs :
        /\ \E j \in DOMAIN real_tool_specs(shimRequest.objs[k]) :
              real_tool_specs(shimRequest.objs[k])[j].original_func = shimRequest.caller.original_func
        /\ \E a \in Range(tool_to_agent(shimRequest.caller.original_func)) :
              a.checksum = RuntimeChecksum(shimRequest.objs[k])}

\* one of them is the agent the current-agent context names
MatchingIdentities ==
    {a \in Range(tool_to_agent(shimRequest.caller.original_func)) :
        /\ a.agent_id = RunningAgentId
        /\ \E k \in RegisteredHolders : a.checksum = RuntimeChecksum(shimRequest.objs[k])}

\* C12: detection raises the unregistered-agent error for a registered tool
\* only if no live instance holding the tool has a registered checksum, and it
\* returns the identity matching a live instance and the current-agent
\* context whenever there is one, whatever else is alive and in whatever
\* order the instances are enumerated.
C12_MatchReturned ==
    ToolCall =>
        /\ shimResponse.detail = "unregistered agent" => RegisteredHolders = {}
        /\ MatchingIdentities # {} =>
              shimResponse.raised # "SecurityError" /\ shimResponse.identity \in MatchingIdentities

----------------------------------------------------------------------------
(* Authorization on the resource server *)

\* a request for a protected route
ProtectedCall ==
    /\ rsRequest # NoCall
    /\ \E r \in Routes : r.protected /\ r.path = rsRequest.path /\ r.method = rsRequest.method

CalledRoute == CHOOSE r \in Routes : r.path = rsRequest.path /\ r.method = rsRequest.method

HasBearer == rsRequest.authorization.kind = "bearer"

PresentedToken == rsRequest.authorization.token

\* the signature, issuer and expiry checks of the presented token
TokenVerifies ==
    /\ PresentedToken.kid = IdpKid
    /\ PresentedToken.signed_by = IdpPrivateKey
    /\ PresentedToken.claims.iss = Issuer
    /\ PresentedToken.claims.exp >= rsResponse.handled_at

PresentedAudiences ==
    CASE PresentedToken.claims.json.aud = "str" -> {PresentedToken.claims.aud}
      [] PresentedToken.claims.json.aud = "list" -> Range(PresentedToken.claims.aud)
      [] OTHER -> {}

ScopesIn(kind, raw) ==
    CASE kind = "str" -> Range(raw) \ {" "}
      [] kind = "list" -> Range(raw)
      [] OTHER -> {}

PresentedScopes ==
    ScopesIn(PresentedToken.claims.json.scope, PresentedToken.claims.scope)
    \cup ScopesIn(PresentedToken.claims.json.scp, PresentedToken.claims.scp)

RequestMissesStepScope ==
    \E i \in DOMAIN RequestedStepDef.scopes :
        /\ RequestedStepDef.scopes[i] \notin Range(idpRequest.has_scopes)
        /\ RequestedStepDef.scopes[i] \notin Range(idpRequest.arg.requested_scopes)

\* a required step defined before the requested step is not completed
RequestMissesRequiredStep ==
    \E i \in 1 .. (RequestedStepPos - 1) :
        RequestedSteps[i].required /\ RequestedSteps[i].key \notin RequestCompletedIds

\* the requested step requires approval and the nearest approval gate before
\* it is absent or not completed
RequestMissesApproval ==
    /\ RequestedStepDef.requires_approval
    /\ ~\E g \in 1 .. (RequestedStepPos - 1) :
           /\ RequestedSteps[g].approval_gate
           /\ \A h \in (g + 1) .. (RequestedStepPos - 1) : ~RequestedSteps[h].approval_gate
           /\ RequestedSteps[g].key \in RequestCompletedIds

\* the request breaks one of the workflow-validation rules
WorkflowRuleViolated ==
    IF ~RequestNamesStep THEN TRUE
    ELSE \/ idpRequest.arg.workflow_step.agent_id # RequestedStepDef.agent
         \/ idpRequest.arg.workflow_step.tool_name # RequestedStepDef.action
         \/ RequestMissesStepScope
         \/ \E i \in DOMAIN RequestedStepDef.dependencies :
                RequestedStepDef.dependencies[i] \notin RequestCompletedIds
         \/ RequestMissesRequiredStep
         \/ RequestMissesApproval

\* C14: a mint_token request with workflow_enabled that passed the grant,
\* agent and checksum checks and breaks a workflow-validation rule (unknown
\* workflow or step, agent or action mismatch, missing step scope, unmet
\* dependency, missing required step, missing or uncompleted approval gate)
\* is answered 403: never a token and never another error.
C14_WorkflowDenied ==
    (ReachedWorkflowValidation /\ WorkflowRuleViolated) => idpResponse.status = 403

\* C15: mint_token fails fast in the stated order: an unsupported grant is
\* answered 400 even for an unknown agent, an unregistered agent_id 401
\* (unknown agent) whatever the checksum, a checksum mismatch 401 whatever the
\* workflow, and 403 is given only to requests that passed these three
\* checks; a failing request gets an error text and no token, and leaves the
\* registries of the IDP as they were.
C15_Order ==
    IsMint =>
        LET req == idpRequest.arg
            granted == req.grant_type = "agent_checksum"
            known == req.agent_id \in DOMAIN registered_agents
            matches == req.computed_checksum = Last(registered_agents[req.agent_id]).checksum
        IN  /\ ~granted =>
                   idpResponse = [status |-> 400, body |-> "Unsupported grant type"]
            /\ (granted /\ ~known) =>
                   idpResponse = [status |-> 401, body |-> "Unknown agent"]
            /\ (granted /\ known /\ ~matches) =>
                   idpResponse = [status |-> 401,
                                  body |-> "Agent checksum mismatch - code integrity violation"]
            /\ idpResponse.status = 403 =>
                   /\ ReachedWorkflowValidation
                   /\ idpResponse.body = "Agent not authorized for workflow step"

C15_RegistriesKept ==
    (IsMint' /\ idpResponse'.status # 200) =>
        /\ registered_agents' = registered_agents
        /\ registered_workflows' = registered_workflows

C15_FailFast == [](C15_Order) /\ [][C15_RegistriesKept]_vars

\* an unsupported grant of an unknown agent with workflow validation enabled
\* was answered 400
C15_Witness ==
    /\ IsMint
    /\ idpRequest.arg.grant_type # "agent_checksum"
    /\ idpRequest.arg.agent_id \notin DOMAIN registered_agents
    /\ idpRequest.arg.workflow_enabled
    /\ idpResponse.status = 400

\* C16: within one workflow execution at most one step is STARTED at a time:
\* no wrapper records STARTED in a workflow state whose active_step is still
\* set, a tool of a sub-agent called during the outer call included.
C16_StartedStep ==
    shimRequest'.op = "call_tool" =>
        LET e == shimRequest'.execution
            ref == contexts'[Last(frames'[e]).ctx].workflow_state
        IN  ref \in DOMAIN workflow_states => workflow_states[ref].active_step = NoneRec

C16_OneStarted == [][C16_StartedStep]_vars

\* the frame of the wrapper that returned or raised in the last step
FinishedFrame == Last(frames[shimRequest'.execution])

\* C17: a wrapped call that returns appends one COMPLETED record of its step
\* to completed_steps and to history and clears active_step; one that raises
\* appends one FAILED record to failed_steps and to history, clears
\* active_step and lets the exception through; nested sub-agent calls
\* included.
C17_TerminalStep ==
    shimRequest'.op \in {"tool_returns", "tool_raises"} =>
        LET f == FinishedFrame
            ref == contexts[f.ctx].workflow_state
            step_id == _get_step_id_for_tool(f.agent_id, f.tool_name)
            before == workflow_states[ref]
            after == workflow_states'[ref]
            returned == shimRequest'.op = "tool_returns"
            terminal == IF returned THEN "completed_steps" ELSE "failed_steps"
        IN  /\ Len(after[terminal]) = Len(before[terminal]) + 1
            /\ Last(after[terminal]).step_id = step_id
            /\ Len(after.history) = Len(before.history) + 1
            /\ Last(after.history) = Last(after[terminal])
            /\ after.active_step = NoneRec
            /\ returned => shimResponse'.raised = NoneStr
            /\ ~returned => shimResponse'.raised # NoneStr

C17_OneTerminalRecord == [][C17_TerminalStep]_vars

OtherExecution(e) == IF e = "e1" THEN "e2" ELSE "e1"

\* the workflow state execution e sees, 0 when its context has none
StateOf(e) == contexts[CurrentContext(e)].workflow_state

\* start_workflow_execution leaves the caller with a state that did not
\* exist before and holds no step
C18_FreshState ==
    shimRequest'.op = "start_workflow_execution" =>
        LET ref == contexts'[RootContext(shimRequest'.execution)].workflow_state
        IN  /\ ref \notin DOMAIN workflow_states
            /\ workflow_states'[ref].completed_steps = <<>>
            /\ workflow_states'[ref].failed_steps = <<>>
            /\ workflow_states'[ref].history = <<>>
            /\ workflow_states'[ref].active_step = NoneRec

\* a step of one execution leaves the state the other execution sees as it was
C18_OtherUntouched ==
    shimRequest'.op # "none" =>
        LET other == OtherExecution(shimRequest'.execution)
        IN  /\ contexts'[CurrentContext(other)] = contexts[CurrentContext(other)]
            /\ StateOf(other) # 0 => workflow_states'[StateOf(other)] = workflow_states[StateOf(other)]

\* the two executions never see the same state, and the delegation context
\* an execution sends to the IDP is read from the state it sees
C18_OwnState ==
    /\ StateOf("e1") # 0 => StateOf("e1") # StateOf("e2")
    /\ (shimRequest.op = "authenticated_request" /\ shimResponse.sent # <<>>) =>
           LET sent == Last(shimResponse.sent)
               state == workflow_states[StateOf(shimRequest.execution)]
           IN  sent.url = "/intent/token" =>
               /\ sent.workflow_step = state.active_step
               /\ sent.delegation_context.completed_steps = state.completed_steps
               /\ sent.delegation_context.chain = state.history

\* C18: start_workflow_execution gives the calling execution a fresh state,
\* and of two executions running concurrently in one process neither sees a
\* step the other started, completed or failed, in its active_step,
\* completed_steps, failed_steps or history or in the delegation context it
\* sends to the IDP.
C18_Isolation ==
    [](C18_OwnState) /\ [][C18_FreshState /\ C18_OtherUntouched]_vars

\* an execution sent its delegation context while the other execution, with a
\* state of its own, had completed a step
C18_Witness ==
    /\ shimRequest.op = "authenticated_request"
    /\ shimResponse.sent # <<>>
    /\ StateOf(OtherExecution(shimRequest.execution)) # 0
    /\ workflow_states[StateOf(OtherExecution(shimRequest.execution))].completed_steps # <<>>
    /\ Last(shimResponse.sent).workflow_step # NoneRec
    /\ Last(shimResponse.sent).delegation_context.completed_steps = <<>>

\* C19: while the body of a wrapped tool runs, synchronous or asynchronous,
\* the current-agent context variable of the context it runs in equals the
\* agent_id of the agent that owns the wrapper.
C19_CurrentAgent ==
    \A e \in Executions :
        frames[e] # <<>> =>
            contexts[Last(frames[e]).ctx].current_agent = Last(frames[e]).agent_id

\* the cache key of the request handled in the last step
RequestCacheKey ==
    _get_cache_key(<<shimRequest'.workflow_id, shimResponse'.identity.agent_id,
                     shimRequest'.audience, JoinScopes(shimRequest'.scopes)>>)

\* the entry of that key before and after the request
EntryBefore == CacheGet(_token_cache, RequestCacheKey)
EntryAfter == CacheGet(_token_cache', RequestCacheKey)

\* the entry was cached less than expires_in - 30 seconds before the request
EntryFresh ==
    /\ EntryBefore # NoneRec
    /\ shimRequest'.at < EntryBefore.expires_at - 30

C20_RequestStep ==
    (CacheRequest /\ shimResponse'.identity # NoneRec) =>
        /\ shimResponse'.reused <=> EntryFresh
        /\ EntryFresh =>
              /\ shimResponse'.sent = <<>>
              /\ shimResponse'.headers.Authorization = EntryBefore.access_token
              /\ _token_cache' = _token_cache
        /\ ~EntryFresh =>
              /\ shimResponse'.sent # <<>>
              /\ shimResponse'.raised = NoneStr =>
                    /\ Last(shimResponse'.sent).url = "/intent/token"
                    /\ EntryAfter # NoneRec
                    /\ EntryAfter.access_token = shimResponse'.headers.Authorization
                    /\ EntryAfter.access_token.minted_at >= shimRequest'.at
                    /\ EntryAfter.expires_at = shim_now' + ExpiresIn
                    /\ Len(SelectSeq(_token_cache', LAMBDA en : en.key = RequestCacheKey)) = 1

\* C20: authenticated_request reuses the cached token of a cache key, and
\* sends no mint request, exactly while the time is earlier than the entry's
\* expiry (time of caching plus the expires_in the IDP reported) minus 30
\* seconds; the first request after that mints a new token, which replaces
\* the entry.
C20_CacheRefresh == [][C20_RequestStep]_vars

\* a token cached at time 1 was reused in the last second before its refresh time
C20_Witness ==
    /\ shimRequest.op = "authenticated_request"
    /\ shimResponse.raised = NoneStr
    /\ shimResponse.reused
    /\ shimResponse.headers.Authorization.minted_at = MaxMintDelay
    /\ shimRequest.at = ExpiresIn - RefreshSkew

\* C21: a request that is answered from the token cache gets a token that was
\* minted for a request of the same mode, scopes, audience, workflow_id and
\* agent_id (app_id in oauth mode).
C21_ReusedToken ==
    LET token == shimResponse'.headers.Authorization
    IN  ((IntentKeyRequest \/ OAuthKeyRequest) /\ shimResponse'.raised = NoneStr
           /\ shimResponse'.reused) =>
            /\ token.grant = (IF "mode" \in DOMAIN shimRequest' THEN "client_credentials"
                               ELSE "agent_checksum")
            /\ token.scope = shimRequest'.scopes
            /\ token.aud = shimRequest'.audience
            /\ token.workflow_id = shimRequest'.workflow_id
            /\ token.sub = shimResponse'.identity.agent_id

C21_KeyedByTuple == [][C21_ReusedToken]_vars

\* a step of MintRequest: the mint takes no time there, so the steps that
\* record a request and leave the clock alone are the request steps
MintStep == shimRequest'.op = "authenticated_request" /\ shim_now' = shim_now

\* a request that attempted a mint and did not get its token
MintFailed == shimResponse'.raised # NoneStr /\ shimResponse'.sent # <<>>

OtherEntries(cache) == SelectSeq(cache, LAMBDA entry : entry.key # OAuthCacheKey)

\* C22 as stated: when minting fails the caller gets SecurityError and no
\* client, the token cache is exactly as before the call, and exactly one
\* mint request was sent.
C22_FailedMintStep ==
    (MintStep /\ MintFailed) =>
        /\ shimResponse'.raised = "SecurityError"
        /\ shimResponse'.headers = NoneRec
        /\ _token_cache' = _token_cache
        /\ Len(shimResponse'.sent) = 1

C22_MintFailureFatal == [][C22_FailedMintStep]_vars

\* C22 amended: when minting fails the caller gets SecurityError, or
\* CancelledError when the failing call was cancelled, and no client; every
\* cache entry but the one of the OAuth token for the mint call is as before,
\* and that one changes only if /oauth/token had answered with a token; the
\* calls sent are one /oauth/token and, if that brought a token, one
\* /intent/token: no call is sent twice.
C22_FailedMintStepAmended ==
    (MintStep /\ MintFailed) =>
        LET sent == shimResponse'.sent
        IN  /\ shimResponse'.raised = (IF shimResponse'.detail = "CancelledError"
                                       THEN "CancelledError" ELSE "SecurityError")
            /\ shimResponse'.headers = NoneRec
            /\ OtherEntries(_token_cache') = OtherEntries(_token_cache)
            /\ Last(sent).url = "/oauth/token" => _token_cache' = _token_cache
            /\ \A a, b \in DOMAIN sent : a # b => sent[a].url # sent[b].url
            /\ sent[1].url = "/oauth/token"

C22_MintFailureAmended == [][C22_FailedMintStepAmended]_vars

\* the IDP refused the intent token after the OAuth token for the call was
\* obtained and cached; the key of the request has no entry
C22_Witness ==
    /\ shimRequest.op = "authenticated_request"
    /\ shimResponse.raised = "SecurityError"
    /\ Len(shimResponse.sent) = 2
    /\ CacheGet(_token_cache, OAuthCacheKey) # NoneRec
    /\ OtherEntries(_token_cache) = <<>>

\* two calls for one key that both found no valid token, both minted and
\* both stored: one of them was minting when the other looked the key up
Raced(task, other) ==
    /\ task # other
    /\ calls[task].pc = "yielded" /\ calls[task].minted
    /\ calls[other].pc = "yielded" /\ calls[other].minted
    /\ calls[task].cache_key = calls[other].cache_key
    /\ task \in calls[other].rivals \/ other \in calls[task].rivals

EntriesOf(key) == {i \in DOMAIN _token_cache : _token_cache[i].key = key}

\* a cache access is made by the task that holds the lock
C23_UnderLock ==
    /\ \A task \in Tasks : calls[task].pc \in {"get", "set"} => _cache_lock = task
    /\ Cardinality({task \in Tasks : calls[task].pc \in {"get", "set"}}) <= 1

\* after a race the cache holds one entry for the key, with one of the two tokens
C23_OneOfTwo ==
    \A task, other \in Tasks : Raced(task, other) =>
        /\ Cardinality(EntriesOf(calls[task].cache_key)) = 1
        /\ CacheGet(_token_cache, calls[task].cache_key).access_token
               \in {calls[task].access_token, calls[other].access_token}

\* the call whose token the cache does not hold goes on without the token it
\* minted: the token it attaches is the one the cache holds
C23_LoserDiscards ==
    \A task, other \in Tasks : Raced(task, other) =>
        calls[task].access_token = CacheGet(_token_cache, calls[task].cache_key).access_token

\* C23: when two concurrent calls for one cache key both find no valid token
\* and both mint, every cache access is made under the cache lock, afterwards
\* the cache holds exactly one of the two tokens for the key, and the call
\* that lost the race has discarded its own token.
C23_DoubleMint == C23_UnderLock /\ C23_OneOfTwo /\ C23_LoserDiscards

\* C24: batch agent registration is atomic: when register_agent fails for an
\* element of a batch, none of the batch's registrations is in the registry
\* afterwards, those of the elements before the failing one included.
C24_FailedBatchStep ==
    (idpRequest'.op = "batch_register_agent" /\ idpResponse'.status # 200) =>
        registered_agents' = registered_agents

C24_BatchAtomic == [][C24_FailedBatchStep]_vars

DependenciesDefined(steps) ==
    \A k \in DOMAIN steps : \A d \in DOMAIN steps[k].dependencies :
        HasStep(steps, steps[k].dependencies[d])

ApprovalGateDeclaredEarlier(steps) ==
    \A k \in DOMAIN steps :
        steps[k].requires_approval => \E j \in 1..(k - 1) : steps[j].approval_gate

\* C25: every workflow definition stored in the workflow registry is
\* well-formed: each dependency names a step of the same workflow, and each
\* step with requires_approval has an approval_gate step declared before it.
C25_WellFormed ==
    \A i \in DOMAIN registered_workflows : \A v \in DOMAIN registered_workflows[i].defs :
        /\ DependenciesDefined(registered_workflows[i].defs[v].steps)
        /\ ApprovalGateDeclaredEarlier(registered_workflows[i].defs[v].steps)

\* the request carries a bearer token with a kid, and the JWKS cache has to
\* fetch: it is empty or expired, or does not know the kid
JwksFetchNeeded ==
    /\ ~IsExempt(rsRequest'.path)
    /\ rsRequest'.authorization.kind = "bearer"
    /\ rsRequest'.authorization.token.kid # NoneStr
    /\ \/ DOMAIN jwks.kid_to_pem = {}
       \/ rs_now >= jwks.expires_at
       \/ rsRequest'.authorization.token.kid \notin DOMAIN jwks.kid_to_pem

\* C26: when the upstream JWKS fetch fails while a token is verified, the
\* fetch is retried once: if the retry brings the keys the cache holds them,
\* and if it fails again the request is answered 502 and the endpoint
\* handler does not run.
C26_FetchFailureStep ==
    \A upstreams \in JwksUpstreams :
        (AuthenticationCall(upstreams) /\ JwksFetchNeeded /\ upstreams[1] = "error") =>
            IF upstreams[2] = "error"
            THEN rsResponse'.status = 502 /\ ~rsResponse'.handler_ran
            ELSE DOMAIN jwks'.kid_to_pem # {}

C26_JwksRetry == [][C26_FetchFailureStep]_vars

\* C27: every minted intent token has exp = iat + 300 seconds, which is the
\* expires_in value returned with it in the TokenResponse.
C27_ShortLived ==
    Minted =>
        /\ idpResponse.body.expires_in = 300
        /\ MintedToken.exp = MintedToken.iat + idpResponse.body.expires_in

HistoryOf(registry, a) == IF a \in DOMAIN registry THEN registry[a] ELSE <<>>

\* every history after the step starts with the history before it
HistoriesKept ==
    \A a \in DOMAIN registered_agents :
        /\ a \in DOMAIN registered_agents'
        /\ Len(registered_agents'[a]) >= Len(registered_agents[a])
        /\ SubSeq(registered_agents'[a], 1, Len(registered_agents[a])) = registered_agents[a]

\* a successful register_agent adds one record at the end of the agent's
\* history and nothing else; a rejected one changes nothing
RegisterAgentAppends ==
    idpRequest'.op = "register_agent" =>
        LET a == idpRequest'.arg.agent_components.agent_id
        IN  IF idpResponse'.status = 200
            THEN /\ DOMAIN registered_agents' = DOMAIN registered_agents \cup {a}
                 /\ Len(registered_agents'[a]) = Len(HistoryOf(registered_agents, a)) + 1
                 /\ Last(registered_agents'[a]).checksum = idpResponse'.body.checksum
                 /\ \A b \in DOMAIN registered_agents : b # a =>
                        registered_agents'[b] = registered_agents[b]
                 /\ registered_workflows' = registered_workflows
            ELSE registered_agents' = registered_agents

\* the operations that register no agent leave the registry of agents alone
OthersKeepRegistry ==
    idpRequest'.op \notin {"register_agent", "batch_register_agent"} =>
        registered_agents' = registered_agents

\* C28: registrations are immutable and histories append-only: no IDP
\* operation modifies or removes an existing registration; a successful
\* register_agent appends exactly one record to the end of the agent's
\* history and changes nothing else; a rejected one leaves every history
\* unchanged.
C28_AppendOnly == [][HistoriesKept /\ RegisterAgentAppends /\ OthersKeepRegistry]_vars

\* a registration was appended to a history that held one already
C28_Witness ==
    /\ idpRequest.op = "register_agent"
    /\ idpResponse.status = 200
    /\ Len(registered_agents[idpRequest.arg.agent_components.agent_id]) >= 2

\* C29: whenever the bootstrap prepares an agent whose tools name sub-agents,
\* every sub-agent it names is already in verified_agents
C29_SubAgentsPrepared ==
    [][(/\ bootstrap.pc = "preparing"
        /\ bootstrap' # bootstrap
        /\ _contains_agents_as_tools(Head(bootstrap.remaining)))
       => \A j \in DOMAIN Head(bootstrap.remaining).tools :
              Head(bootstrap.remaining).tools[j].is_agent
                  => Head(bootstrap.remaining).tools[j].name \in verified_agents]_vars

\* self.workflow_state of the execution the request is made in
RequestWorkflowState ==
    LET got == workflow_state(contexts, workflow_states,
                              CurrentContext(shimRequest'.execution), shim_now)
    IN  got.workflow_states[got.ref]

\* C30: the token an intent-mode request with workflow_enabled attaches was
\* minted, and so validated by the IDP, for the active step and the
\* completed_steps the execution has at the request
C30_TokenOfCurrentStep ==
    [][(shimRequest'.op = "authenticated_request" /\ shimResponse'.raised = NoneStr) =>
          /\ shimResponse'.headers.Authorization.workflow_step = RequestWorkflowState.active_step
          /\ shimResponse'.headers.Authorization.completed_steps
                 = RequestWorkflowState.completed_steps]_vars

====
